---------------------------- MODULE Spec2Model ----------------------------
(***************************************************************************)
(* DesktopBluetoothKeyboard: the BLE HID keyboard services                 *)
(* (SimpleBLEKeyboardService, BluetoothKeyboardService on the bleak path)  *)
(* and the coroutines the front end schedules on them.                     *)
(*                                                                         *)
(* A coroutine runs atomically from one await to the next.  A blocking     *)
(* backend call handed to loop.run_in_executor is three steps: the         *)
(* coroutine submits it (ret = "pend"), a worker thread runs it            *)
(* (Backend_* actions, which set ret), and the coroutine resumes.          *)
(***************************************************************************)
EXTENDS Integers, Sequences, FiniteSets, TLC

(***************************************************************************)
(* Bounds of the model.                                                    *)
(***************************************************************************)
MaxConnects == 2
MaxDisconnects == 1
MaxSends == 1
MaxTextLen == 2
MaxFaults == 1

None == "None"

(***************************************************************************)
(* Characters are Unicode code points.                                     *)
(***************************************************************************)
ShiftedPunctuation ==
    {33, 64, 35, 36, 37, 94, 38, 42, 40, 41, 95, 43, 123, 125, 124, 58, 34, 60, 62, 63}

\* str.upper() of a one-character string: a sequence of code points.
Upper(c) ==
    IF c \in 97..122 THEN <<c - 32>>
    ELSE IF c = 223 THEN <<83, 83>>      \* sharp s -> "SS"
    ELSE IF c = 305 THEN <<73>>          \* dotless i -> "I"
    ELSE IF c = 383 THEN <<83>>          \* long s -> "S"
    ELSE IF c = 233 THEN <<201>>         \* e acute -> E acute
    ELSE <<c>>

\* str.isupper() of a one-character string.
IsUpper(c) == c \in 65..90 \/ c = 201

\* 'A' <= s <= 'Z' on strings: lexicographic comparison of code points.
BetweenAandZ(s) ==
    /\ Len(s) >= 1
    /\ s[1] >= 65
    /\ \/ s[1] < 90
       \/ s[1] = 90 /\ Len(s) = 1

special_chars ==
    [c \in {32, 10, 13, 9, 45, 61, 91, 93, 92, 59, 39, 96, 44, 46, 47} |->
        CASE c = 32 -> 44 [] c = 10 -> 40 [] c = 13 -> 40 [] c = 9 -> 43
          [] c = 45 -> 45 [] c = 61 -> 46 [] c = 91 -> 47 [] c = 93 -> 48
          [] c = 92 -> 49 [] c = 59 -> 51 [] c = 39 -> 52 [] c = 96 -> 53
          [] c = 44 -> 54 [] c = 46 -> 55 [] c = 47 -> 56]

NoCode == -1        \* the None of _char_to_hid_code
CodeRaises == -2    \* ord() of a two-character string: TypeError

\* _char_to_hid_code
CharToHidCode(c) ==
    LET char_upper == Upper(c) IN
    IF BetweenAandZ(char_upper)
    THEN IF Len(char_upper) = 1 THEN char_upper[1] - 65 + 4 ELSE CodeRaises
    ELSE IF c \in 48..57
    THEN IF c = 48 THEN 39 ELSE c - 48 + 30
    ELSE IF c \in DOMAIN special_chars THEN special_chars[c] ELSE NoCode

\* BluetoothKeyboardService._char_to_hid_code and its table (src/bluetooth_keyboard.py).
Bleak_special_chars ==
    [c \in {32, 10, 13, 9, 45, 61, 91, 93, 92, 59, 39, 96, 44, 46, 47} |->
        CASE c = 32 -> 44 [] c = 10 -> 40 [] c = 13 -> 40 [] c = 9 -> 43
          [] c = 45 -> 45 [] c = 61 -> 46 [] c = 91 -> 47 [] c = 93 -> 48
          [] c = 92 -> 49 [] c = 59 -> 51 [] c = 39 -> 52 [] c = 96 -> 53
          [] c = 44 -> 54 [] c = 46 -> 55 [] c = 47 -> 56]

Bleak_CharToHidCode(c) ==
    LET char_upper == Upper(c) IN
    IF BetweenAandZ(char_upper)
    THEN IF Len(char_upper) = 1 THEN char_upper[1] - 65 + 4 ELSE CodeRaises
    ELSE IF c \in 48..57
    THEN IF c = 48 THEN 39 ELSE c - 48 + 30
    ELSE IF c \in DOMAIN Bleak_special_chars THEN Bleak_special_chars[c] ELSE NoCode

\* A faulty WindowsBluetoothKeyboardService._char_to_hid_code that compares char
\* instead of char.upper(): a lowercase letter has no code.
Windows_CharToHidCode_NoUpper(c) ==
    IF c \in 65..90 THEN c - 65 + 4
    ELSE IF c \in 48..57
    THEN IF c = 48 THEN 39 ELSE c - 48 + 30
    ELSE IF c \in DOMAIN special_chars THEN special_chars[c] ELSE NoCode

\* WindowsBluetoothKeyboardService._char_to_hid_code and its table (src/bluetooth_keyboard_windows.py).
Windows_special_chars ==
    [c \in {32, 10, 13, 9, 45, 61, 91, 93, 92, 59, 39, 96, 44, 46, 47} |->
        CASE c = 32 -> 44 [] c = 10 -> 40 [] c = 13 -> 40 [] c = 9 -> 43
          [] c = 45 -> 45 [] c = 61 -> 46 [] c = 91 -> 47 [] c = 93 -> 48
          [] c = 92 -> 49 [] c = 59 -> 51 [] c = 39 -> 52 [] c = 96 -> 53
          [] c = 44 -> 54 [] c = 46 -> 55 [] c = 47 -> 56]

Windows_CharToHidCode(c) ==
    LET char_upper == Upper(c) IN
    IF BetweenAandZ(char_upper)
    THEN IF Len(char_upper) = 1 THEN char_upper[1] - 65 + 4 ELSE CodeRaises
    ELSE IF c \in 48..57
    THEN IF c = 48 THEN 39 ELSE c - 48 + 30
    ELSE IF c \in DOMAIN Windows_special_chars THEN Windows_special_chars[c] ELSE NoCode

\* The shift decision of send_character in the bleak-path and the Windows service.
Bleak_Modifier(c) == IF IsUpper(c) \/ c \in ShiftedPunctuation THEN 2 ELSE 0
Windows_Modifier(c) == IF IsUpper(c) \/ c \in ShiftedPunctuation THEN 2 ELSE 0

\* _create_hid_report of the bleak-path and the Windows service.
Bleak_CreateHidReport(key_code, modifier) ==
    <<modifier, 0, key_code, 0, 0, 0, 0, 0>>
Windows_CreateHidReport(key_code, modifier) ==
    <<modifier, 0, key_code, 0, 0, 0, 0, 0>>

\* A faulty send_character: Left Shift is never set.
Modifier_NoShift(c) == 0

\* send_character: the modifier of the press report.
Modifier(c) == IF IsUpper(c) \/ c \in ShiftedPunctuation THEN 2 ELSE 0

\* A faulty _create_hid_report: the key code is stored in the reserved byte.
CreateHidReport_KeyInReserved(key_code, modifier) ==
    <<modifier, key_code, 0, 0, 0, 0, 0, 0>>

\* _create_hid_report: bytearray(8) with byte 0 and byte 2 set.
CreateHidReport(key_code, modifier) ==
    <<modifier, 0, key_code, 0, 0, 0, 0, 0>>

ReleaseReport == CreateHidReport(0, 0)

\* Faulty variants of send_character: the release before the press; the press alone.
SendCharacterKeys_ReleaseFirst(c) == << <<0, 0>>, <<CharToHidCode(c), Modifier(c)>> >>
SendCharacterKeys_PressOnly(c) == << <<CharToHidCode(c), Modifier(c)>> >>

\* send_character: the send_key calls of one character, in order.
SendCharacterKeys(c) == << <<CharToHidCode(c), Modifier(c)>>, <<0, 0>> >>

\* send_backspace: its send_key calls, in order.
SendBackspaceKeys_ReleaseFirst == << <<0, 0>>, <<42, 0>> >>

SendBackspaceKeys == << <<42, 0>>, <<0, 0>> >>


(***************************************************************************)
(* The peers.  A UUID is abbreviated to the fragment the code looks for.   *)
(* can_write is the text of str(char.can_write()).lower(); props are the   *)
(* characteristic's properties as bleak reports them.                      *)
(***************************************************************************)
Devices == {"pad", "tag"}

Char(u, w, p) == [uuid |-> u, can_write |-> w, props |-> p]

Services(d) ==
    IF d = "pad"
    THEN << [uuid |-> "180f", chars |-> << Char("2a19", "", {"read"}) >>],
            [uuid |-> "1812",
             chars |-> << Char("2a4b", "", {"read"}),
                          Char("2a4d", "write", {"write-without-response"}) >>] >>
    ELSE IF d = "tag"
    THEN << [uuid |-> "ffe0", chars |-> << Char("ffe1", "write", {"write"}) >>] >>
    \* Peers with the standard report characteristic and an unrelated writable
    \* characteristic named "report", in each enumeration order.
    ELSE IF d = "standard_first"
    THEN << [uuid |-> "1812",
             chars |-> << Char("2a4d", "write", {"write-without-response"}),
                          Char("report", "write", {"write"}) >>] >>
    ELSE IF d = "standard_last"
    THEN << [uuid |-> "1812",
             chars |-> << Char("report", "write", {"write"}),
                          Char("2a4d", "write", {"write-without-response"}) >>] >>
    ELSE IF d = "service_first"
    THEN << [uuid |-> "1812",
             chars |-> << Char("2a4d", "write", {"write-without-response"}) >>],
            [uuid |-> "ffe0", chars |-> << Char("report", "write", {"write"}) >>] >>
    \* A peer whose HID service exposes only a writable 2a4b.
    ELSE IF d = "map_only"
    THEN << [uuid |-> "180f", chars |-> << Char("2a19", "", {"read"}) >>],
            [uuid |-> "1812", chars |-> << Char("2a4b", "write", {"write"}) >>] >>
    \* Peers without a 1812 service: one with a writable characteristic named
    \* "report", one whose 2a4d cannot be written.
    ELSE IF d = "vendor"
    THEN << [uuid |-> "180f", chars |-> << Char("2a19", "", {"read"}) >>],
            [uuid |-> "ffe0",
             chars |-> << Char("ffe1", "", {"read"}), Char("report", "write", {"write"}) >>] >>
    ELSE IF d = "vendor_readonly"
    THEN << [uuid |-> "ffe0", chars |-> << Char("2a4d", "", {"read", "notify"}) >>] >>
    ELSE << [uuid |-> "ffe0", chars |-> << Char("report", "write", {"write"}) >>],
            [uuid |-> "1812",
             chars |-> << Char("2a4d", "write", {"write-without-response"}) >>] >>

\* "1812" in service_uuid or "hid" in service_uuid
IsHidService(svc) == svc.uuid \in {"1812", "hid"}

\* "2a4d" in char_uuid or "report" in char_uuid
IsReportChar(ch) == ch.uuid \in {"2a4d", "report"}

\* "write" in can_write
CanWrite(ch) == ch.can_write = "write"

\* The first index of a for loop that is in S, or 0 when the loop falls through.
FirstIndex(S) == IF S = {} THEN 0 ELSE CHOOSE i \in S : \A j \in S : i <= j

\* connect: the next service of the for loop that is taken for the HID service.
NextHidService(services, from) ==
    FirstIndex({i \in from..Len(services) : IsHidService(services[i])})

\* connect: the first characteristic of a HID service that is resolved.
FindReportChar(chars) ==
    FirstIndex({j \in 1..Len(chars) : IsReportChar(chars[j]) /\ CanWrite(chars[j])})

\* send_key: the first characteristic of a service the fallback writes to.
FindWritableChar(chars) ==
    FirstIndex({j \in 1..Len(chars) : CanWrite(chars[j])})

\* A characteristic object: <<device, service index, characteristic index>>.
NoChar == <<>>
CharUuid(ch) == Services(ch[1])[ch[2]].chars[ch[3]].uuid
CharProps(ch) == Services(ch[1])[ch[2]].chars[ch[3]].props
UuidsOf(d) ==
    UNION {{Services(d)[i].chars[j].uuid : j \in 1..Len(Services(d)[i].chars)} :
             i \in 1..Len(Services(d))}

(***************************************************************************)
(* State.                                                                  *)
(***************************************************************************)
VARIABLES
    is_connected,           \* SimpleBLEKeyboardService.is_connected
    peripheral,             \* .peripheral: a device, or None
    connected_device,       \* .connected_device: a device, or None
    report_characteristic,  \* .report_characteristic: a characteristic, or NoChar
    link,                   \* backend: the peripherals whose link is up
    conn,                   \* the connect() coroutine
    disc,                   \* the disconnect() coroutine
    snd,                    \* the send_text()/send_backspaces()/send_character() coroutines
    sent,                   \* history: what each send was called with
    wire,                   \* history: the write_request calls the backend ran, in order
    calls,                  \* history: the send_key calls that returned, in order
    used,                   \* how many connects, disconnects, sends and faults so far
    client,                 \* BluetoothKeyboardService.client: a device's client, or None
    bleak_is_connected,     \* BluetoothKeyboardService.is_connected
    bleak_connected_device, \* BluetoothKeyboardService.connected_device
    report_char_handle,     \* BluetoothKeyboardService.report_char_handle, 0 for None
    bleak_link,             \* bleak backend: the devices whose client is connected
    bleak_wire,             \* history: the write_gatt_char calls of the bleak backend
    bleak_last,             \* history: the last call on the bleak-path service
    scanned_devices,        \* SimpleBLEKeyboardService.scanned_devices
    scan,                   \* the scan_for_devices() coroutine
    seen,                   \* history: the device-found events of the current scan
    logged,                 \* history: the failure diagnostics the logger callback received
    encoded,                \* the input given to the three services' encoders, and their results
    input_text,             \* BluetoothKeyboardApp.input_text: the content of the text widget
    last_text               \* BluetoothKeyboardApp.last_text

simpleble_vars == <<is_connected, peripheral, connected_device, report_characteristic,
                    link, conn, disc, snd, sent, wire, calls, used>>
bleak_vars == <<client, bleak_is_connected, bleak_connected_device, report_char_handle,
                bleak_link, bleak_wire, bleak_last>>
scan_vars == <<scanned_devices, scan, seen>>
vars == <<simpleble_vars, bleak_vars, scan_vars, logged, encoded, input_text, last_text>>

ConnIdle == [pc |-> "idle", dev |-> None, svc |-> 0, ret |-> "none",
             linked |-> FALSE, result |-> "none", stale |-> FALSE]
DiscIdle == [pc |-> "idle", dev |-> None, ret |-> "none"]
SndIdle == [pc |-> "idle", sid |-> 0, n |-> 0, ph |-> 0,
            dev |-> None, svc |-> 0, chr |-> NoChar, ret |-> "none",
            cut |-> FALSE, torn |-> FALSE, stale |-> FALSE]

\* __init__
InitService ==
    /\ is_connected = FALSE
    /\ peripheral = None
    /\ connected_device = None
    /\ report_characteristic = NoChar

InitRest ==
    /\ conn = ConnIdle
    /\ disc = DiscIdle
    /\ snd = [t \in {1} |-> SndIdle]
    /\ sent = <<>>
    /\ wire = <<>>
    /\ calls = <<>>
    /\ used = [connects |-> 0, disconnects |-> 0, sends |-> 0, faults |-> 0]

\* BluetoothKeyboardService.__init__
InitBleak ==
    /\ client = None
    /\ bleak_connected_device = None
    /\ bleak_is_connected = FALSE
    /\ report_char_handle = 0
    /\ bleak_link = {}
    /\ bleak_wire = <<>>
    /\ bleak_last = [op |-> "none", result |-> "none"]

\* __init__, line 49; no scan is running.
\* No diagnostic has been logged.
InitLog == logged = {}

\* The services that have an encoder: the bleak-path, the SimpleBLE and the Windows
\* service.
CodecServices == {"bleak", "simpleble", "windows"}

\* No encoder has been given an input.
NoInput == [kind |-> "none", a |-> 0, b |-> 0, out |-> [s \in CodecServices |-> <<>>]]
InitCodec == encoded = NoInput

\* BluetoothKeyboardApp.__init__, main_simpleble.py line 34; the text widget is empty.
InitApp == input_text = <<>> /\ last_text = <<>>

InitScan ==
    /\ scanned_devices = <<>>
    /\ scan = [pc |-> "idle", runs |-> 0, result |-> <<>>, returned |-> <<>>,
               aliased |-> FALSE, hooked |-> FALSE]
    /\ seen = <<>>

Init ==
    InitService /\ link = {} /\ InitRest /\ InitBleak /\ InitScan /\ InitLog /\ InitCodec /\ InitApp

\* A backend call may fail (raise) while faults are left to inject.
MayFail == used.faults < MaxFaults
Fault == [used EXCEPT !.faults = @ + 1]

(***************************************************************************)
(* connect(device)                                                         *)
(***************************************************************************)
\* History: a connect that sets is_connected ends every sender's cut; the sender is
\* stale when that connect was already in flight at the last disconnect.
Uncut ==
    [t \in DOMAIN snd |->
       IF snd[t].pc = "idle" THEN snd[t]
       ELSE [snd[t] EXCEPT !.cut = FALSE, !.stale = @ \/ conn.stale]]

\* Lines 262-264 and 321-323: mark as connected, report_characteristic untouched.
MarkConnected(d) ==
    /\ peripheral' = d
    /\ connected_device' = d
    /\ is_connected' = TRUE
    /\ UNCHANGED report_characteristic
    /\ snd' = Uncut

\* Lines 311-314: the report characteristic is found.
MarkResolved(d, ch) ==
    /\ report_characteristic' = ch
    /\ peripheral' = d
    /\ connected_device' = d
    /\ is_connected' = TRUE
    /\ snd' = Uncut

\* A failure diagnostic given to self._log by operation op, number k, about h.
LogEntry(op, k, h) == [op |-> op, k |-> k, h |-> h]

\* connect returns r; every return False follows a self._log call (lines 244-250
\* and 327).
ConnectReturns(r) ==
    /\ conn' = [ConnIdle EXCEPT !.result = r]
    /\ logged' = IF r = "false" THEN logged \cup {LogEntry("connect", used.connects, 0)}
                 ELSE logged
    /\ UNCHANGED <<encoded, input_text, last_text>>

\* The coroutine is scheduled; it runs to its first await, on peripheral.connect.
Connect_Call(d) ==
    /\ conn.pc = "idle"
    /\ used.connects < MaxConnects
    /\ conn' = [ConnIdle EXCEPT !.pc = "connect", !.dev = d, !.ret = "pend"]
    /\ used' = [used EXCEPT !.connects = @ + 1]
    /\ UNCHANGED <<is_connected, peripheral, connected_device, report_characteristic,
                   link, disc, snd, sent, wire, calls, bleak_vars, scan_vars, logged, encoded, input_text, last_text>>

\* The worker runs the transport-level connect (peripheral.connect, then the
\* fallbacks of lines 239-250, which all end in the same two outcomes).
Backend_connect ==
    /\ conn.pc = "connect" /\ conn.ret = "pend"
    /\ \/ /\ link' = link \cup {conn.dev}
          /\ conn' = [conn EXCEPT !.ret = "ok"]
          /\ UNCHANGED used
       \/ /\ MayFail
          /\ conn' = [conn EXCEPT !.ret = "raise"]
          /\ used' = Fault
          /\ UNCHANGED link
    /\ UNCHANGED <<is_connected, peripheral, connected_device, report_characteristic,
                   disc, snd, sent, wire, calls, bleak_vars, scan_vars, logged, encoded, input_text, last_text>>

\* Lines 238-255: connect failed -> return False; else await peripheral.services.
Connect_AfterTransport ==
    /\ conn.pc = "connect" /\ conn.ret \in {"ok", "raise"}
    /\ IF conn.ret = "ok"
       THEN /\ conn' = [conn EXCEPT !.pc = "services", !.ret = "pend", !.linked = TRUE]
            /\ UNCHANGED <<logged, encoded, input_text, last_text>>
       ELSE ConnectReturns("false")
    /\ UNCHANGED <<is_connected, peripheral, connected_device, report_characteristic,
                   link, disc, snd, sent, wire, calls, used, bleak_vars, scan_vars>>

\* The worker enumerates the services, or a service's characteristics. "attr" is
\* an AttributeError whose fallback accessor fails too; "raise" any other exception.
Backend_enumerate ==
    /\ conn.pc \in {"services", "chars"} /\ conn.ret = "pend"
    /\ \/ /\ conn.dev \in link
          /\ conn' = [conn EXCEPT !.ret = "ok"]
          /\ UNCHANGED used
       \/ /\ conn.dev \notin link
          /\ conn' = [conn EXCEPT !.ret = "raise"]
          /\ UNCHANGED used
       \/ /\ conn.dev \in link /\ MayFail
          /\ \E r \in {"attr", "raise"} : conn' = [conn EXCEPT !.ret = r]
          /\ used' = Fault
    /\ UNCHANGED <<is_connected, peripheral, connected_device, report_characteristic,
                   link, disc, snd, sent, wire, calls, bleak_vars, scan_vars, logged, encoded, input_text, last_text>>

\* The for loop of line 270 from service `from` on: up to the next await, or to the
\* fall-through of lines 318-324.
ConnectScanFrom(from) ==
    LET i == NextHidService(Services(conn.dev), from) IN
    IF i = 0
    THEN MarkConnected(conn.dev) /\ ConnectReturns("true")
    ELSE /\ conn' = [conn EXCEPT !.pc = "chars", !.svc = i, !.ret = "pend"]
         /\ UNCHANGED <<is_connected, peripheral, connected_device,
                        report_characteristic, snd, logged, encoded, input_text, last_text>>

\* Lines 254-270, and the outer except of line 326.
Connect_AfterServices ==
    /\ conn.pc = "services" /\ conn.ret \in {"ok", "attr", "raise"}
    /\ CASE conn.ret = "ok" -> ConnectScanFrom(1)
         [] conn.ret = "attr" -> MarkConnected(conn.dev) /\ ConnectReturns("true")
         [] conn.ret = "raise" ->
              /\ ConnectReturns("false")
              /\ UNCHANGED <<is_connected, peripheral, connected_device,
                             report_characteristic, snd>>
    /\ UNCHANGED <<link, disc, sent, wire, calls, used, bleak_vars, scan_vars>>

\* Lines 283-316, and the outer except of line 326.
Connect_AfterCharacteristics ==
    /\ conn.pc = "chars" /\ conn.ret \in {"ok", "attr", "raise"}
    /\ LET j == FindReportChar(Services(conn.dev)[conn.svc].chars) IN
       CASE conn.ret = "ok" /\ j # 0 ->
              MarkResolved(conn.dev, <<conn.dev, conn.svc, j>>) /\ ConnectReturns("true")
         [] conn.ret = "ok" /\ j = 0 -> ConnectScanFrom(conn.svc + 1)
         [] conn.ret = "attr" -> ConnectScanFrom(conn.svc + 1)
         [] conn.ret = "raise" ->
              /\ ConnectReturns("false")
              /\ UNCHANGED <<is_connected, peripheral, connected_device,
                             report_characteristic, snd>>
    /\ UNCHANGED <<link, disc, sent, wire, calls, used, bleak_vars, scan_vars>>

(***************************************************************************)
(* disconnect()                                                            *)
(***************************************************************************)
\* A faulty finally block that leaves report_characteristic set.
Finally_KeepsCharacteristic ==
    /\ is_connected' = FALSE
    /\ connected_device' = None
    /\ peripheral' = None
    /\ UNCHANGED report_characteristic

\* Lines 340-344: the finally block.
Finally ==
    /\ is_connected' = FALSE
    /\ connected_device' = None
    /\ peripheral' = None
    /\ report_characteristic' = NoChar

\* The sender is suspended on a backend call, or in the sleep between the press
\* and the release of an item.
Suspended(s) == s.pc \notin {"idle", "ready"} \/ (s.pc = "ready" /\ s.ph > 1)

\* History: a disconnect completed. A connect in flight is stale from now on; a
\* send in flight is cut, and torn when the disconnect took the link down under it.
DisconnectCompletes(tore) ==
    /\ conn' = IF conn.pc = "idle" THEN conn ELSE [conn EXCEPT !.stale = TRUE]
    /\ snd' = [t \in DOMAIN snd |->
                 IF snd[t].pc = "idle" THEN snd[t]
                 ELSE [snd[t] EXCEPT !.cut = TRUE,
                                     !.torn = @ \/ (tore /\ Suspended(snd[t]))]]

\* Lines 334-337: with a peripheral, await peripheral.disconnect; without, the
\* finally block runs at once.
DisconnectCalled ==
    /\ disc.pc = "idle"
    /\ used' = [used EXCEPT !.disconnects = @ + 1]
    /\ IF peripheral # None
       THEN /\ disc' = [pc |-> "wait", dev |-> peripheral, ret |-> "pend"]
            /\ UNCHANGED <<is_connected, peripheral, connected_device,
                           report_characteristic, conn, snd>>
       ELSE /\ Finally
            /\ DisconnectCompletes(FALSE)
            /\ UNCHANGED disc
    /\ UNCHANGED <<link, sent, wire, calls, bleak_vars, scan_vars, logged, encoded, input_text, last_text>>

\* disconnect() is called, at most MaxDisconnects times.
Disconnect_Call == used.disconnects < MaxDisconnects /\ DisconnectCalled

\* The worker runs peripheral.disconnect (the bound method taken at the call).
Backend_disconnect ==
    /\ disc.pc = "wait" /\ disc.ret = "pend"
    /\ \/ /\ link' = link \ {disc.dev}
          /\ disc' = [disc EXCEPT !.ret = "ok"]
          /\ UNCHANGED used
       \/ /\ MayFail
          /\ disc' = [disc EXCEPT !.ret = "raise"]
          /\ used' = Fault
          /\ UNCHANGED link
    /\ UNCHANGED <<is_connected, peripheral, connected_device, report_characteristic,
                   conn, snd, sent, wire, calls, bleak_vars, scan_vars, logged, encoded, input_text, last_text>>

\* Lines 338-344: the except clause prints, the finally block resets.
Disconnect_Finally ==
    /\ disc.pc = "wait" /\ disc.ret \in {"ok", "raise"}
    /\ Finally
    /\ DisconnectCompletes(disc.ret = "ok")
    /\ disc' = DiscIdle
    /\ UNCHANGED <<link, sent, wire, calls, used, bleak_vars, scan_vars, logged, encoded, input_text, last_text>>

(***************************************************************************)
(* send_text / send_backspaces / send_character / send_key                 *)
(***************************************************************************)
\* The characters the model types: a letter, its capital, a character outside the
\* KeyMapping domain.
TextChars == {97, 65, 8364}

SeqsUpTo(S, n) == UNION {[1..k -> S] : k \in 1..n}
Texts == SeqsUpTo(TextChars, MaxTextLen)

\* send_text, lines 273-276: a newline or carriage return is sent as '\n'.
SendTextChar(c) == IF c = 10 \/ c = 13 THEN 10 ELSE c

\* Faulty variant of the for loop of send_text: the characters are taken last to first.
ItemOf_Reversed(s) == sent[s.sid].items[Len(sent[s.sid].items) - s.n + 1]

\* The item a sender is at, and the send_key calls of that item.
ItemOf(s) == sent[s.sid].items[s.n]
KeysOf(s) ==
    IF sent[s.sid].kind = "bs" THEN SendBackspaceKeys ELSE SendCharacterKeys(ItemOf(s))

\* Faulty variant of send_key: the guard of line 369 is missing.
Usable_Always == TRUE

\* send_key, line 369: the guard.
Usable == is_connected /\ peripheral # None

SendCalled(t, kind, items) ==
    /\ snd[t].pc = "idle"
    /\ used.sends < MaxSends
    /\ used' = [used EXCEPT !.sends = @ + 1]
    /\ sent' = Append(sent, [kind |-> kind, items |-> items])
    /\ snd' = [snd EXCEPT ![t] = [SndIdle EXCEPT !.pc = "ready", !.sid = Len(sent) + 1,
                                                 !.n = 1, !.ph = 1]]
    /\ UNCHANGED <<is_connected, peripheral, connected_device, report_characteristic,
                   link, conn, disc, wire, calls, bleak_vars, scan_vars, logged, encoded, input_text, last_text>>

\* send_text(text) is scheduled.
SendText_Call(t, text) ==
    SendCalled(t, "text", [i \in 1..Len(text) |-> SendTextChar(text[i])])

\* send_backspaces(count) is scheduled.
SendBackspaces_Call(t, count) == SendCalled(t, "bs", [i \in 1..count |-> 0])

\* send_character(char) is called on its own.
SendCharacter_Call(t, c) == SendCalled(t, "char", <<c>>)

\* The sender after the current send_key call returned: the sleep, then the next
\* send_key of the item, the next item, or the end of the coroutine.
Advanced(s) ==
    IF s.ph < Len(KeysOf(s))
    THEN [s EXCEPT !.pc = "ready", !.ph = @ + 1, !.ret = "none", !.dev = None,
                   !.svc = 0, !.chr = NoChar]
    ELSE IF s.n < Len(sent[s.sid].items)
    THEN [s EXCEPT !.pc = "ready", !.n = @ + 1, !.ph = 1, !.ret = "none", !.dev = None,
                   !.svc = 0, !.chr = NoChar]
    ELSE SndIdle

\* The sender after an item that sends nothing.
Skipped(s) ==
    IF s.n < Len(sent[s.sid].items)
    THEN [s EXCEPT !.pc = "ready", !.n = @ + 1, !.ph = 1]
    ELSE SndIdle

\* History: the send_key call of sender s returned ret.
CallRecord(s, ret, why) ==
    [sid |-> s.sid, n |-> s.n, ph |-> s.ph, key |-> KeysOf(s)[s.ph],
     ret |-> ret, why |-> why, path |-> s.pc, cut |-> s.cut]

SendKeyReturns(t, ret, why) ==
    /\ calls' = Append(calls, CallRecord(snd[t], ret, why))
    /\ snd' = [snd EXCEPT ![t] = Advanced(snd[t])]

\* send_character lines 406-416 (or send_backspace) up to the first await of
\* send_key, lines 369-388.
SendKey_Call(t) ==
    LET s == snd[t] IN
    /\ s.pc = "ready"
    /\ IF sent[s.sid].kind # "bs" /\ CharToHidCode(ItemOf(s)) = NoCode
       THEN \* "Unsupported character": nothing is sent
            /\ snd' = [snd EXCEPT ![t] = Skipped(s)]
            /\ UNCHANGED calls
       ELSE IF sent[s.sid].kind # "bs" /\ CharToHidCode(ItemOf(s)) = CodeRaises
       THEN \* the TypeError ends send_character and send_text
            /\ snd' = [snd EXCEPT ![t] = SndIdle]
            /\ UNCHANGED calls
       ELSE IF ~Usable
       THEN SendKeyReturns(t, FALSE, "notconn")
       ELSE IF report_characteristic # NoChar
       THEN /\ snd' = [snd EXCEPT ![t] = [s EXCEPT !.pc = "write", !.ret = "pend"]]
            /\ UNCHANGED calls
       ELSE /\ snd' = [snd EXCEPT ![t] = [s EXCEPT !.pc = "services", !.ret = "pend",
                                                   !.dev = peripheral]]
            /\ UNCHANGED calls
    /\ UNCHANGED <<is_connected, peripheral, connected_device, report_characteristic,
                   link, conn, disc, sent, wire, used, bleak_vars, scan_vars, logged, encoded, input_text, last_text>>

\* History: the backend ran write_request(uuid, report) on peripheral dev.
WireRecord(s, dev, ch, ok) ==
    [sid |-> s.sid, n |-> s.n, ph |-> s.ph,
     report |-> CreateHidReport(KeysOf(s)[s.ph][1], KeysOf(s)[s.ph][2]),
     dev |-> dev, uuid |-> CharUuid(ch), src |-> ch[1], resolved |-> s.pc = "write",
     ok |-> ok, cut |-> s.cut, torn |-> s.torn, stale |-> s.stale,
     method |-> "write_request", props |-> CharProps(ch)]

\* The worker runs the lambda of lines 380-383 (pc "write": self.peripheral and
\* self.report_characteristic are read when it runs) or of line 395 (pc "fwrite":
\* self.peripheral is read when it runs, char is the loop variable).
Backend_write(t) ==
    LET s == snd[t]
        ch == IF s.pc = "write" THEN report_characteristic ELSE s.chr
        accepted == peripheral \in link /\ CharUuid(ch) \in UuidsOf(peripheral)
    IN
    /\ s.pc \in {"write", "fwrite"} /\ s.ret = "pend"
    /\ IF peripheral = None \/ ch = NoChar
       THEN \* AttributeError on None: the backend is not reached
            /\ snd' = [snd EXCEPT ![t].ret = "raise"]
            /\ UNCHANGED <<wire, used>>
       ELSE \/ /\ accepted
               /\ wire' = Append(wire, WireRecord(s, peripheral, ch, TRUE))
               /\ snd' = [snd EXCEPT ![t].ret = "ok"]
               /\ UNCHANGED used
            \/ /\ ~accepted
               /\ wire' = Append(wire, WireRecord(s, peripheral, ch, FALSE))
               /\ snd' = [snd EXCEPT ![t].ret = "raise"]
               /\ UNCHANGED used
            \/ /\ accepted /\ MayFail
               /\ wire' = Append(wire, WireRecord(s, peripheral, ch, FALSE))
               /\ snd' = [snd EXCEPT ![t].ret = "raise"]
               /\ used' = Fault
    /\ UNCHANGED <<is_connected, peripheral, connected_device, report_characteristic,
                   link, conn, disc, sent, calls, bleak_vars, scan_vars, logged, encoded, input_text, last_text>>

\* Lines 385 and 397-400: return True, or the except clause returns False.
SendKey_AfterWrite(t) ==
    /\ snd[t].pc \in {"write", "fwrite"} /\ snd[t].ret \in {"ok", "raise"}
    /\ IF snd[t].ret = "ok"
       THEN SendKeyReturns(t, TRUE, "ok")
       ELSE SendKeyReturns(t, FALSE, "raised")
    /\ UNCHANGED <<is_connected, peripheral, connected_device, report_characteristic,
                   link, conn, disc, sent, wire, used, bleak_vars, scan_vars, logged, encoded, input_text, last_text>>

\* The worker runs peripheral.services (line 388) or service.characteristics
\* (line 390) for send_key.
Backend_enumerate_for_send(t) ==
    /\ snd[t].pc \in {"services", "chars"} /\ snd[t].ret = "pend"
    /\ \/ /\ snd[t].dev \in link
          /\ snd' = [snd EXCEPT ![t].ret = "ok"]
          /\ UNCHANGED used
       \/ /\ snd[t].dev \notin link
          /\ snd' = [snd EXCEPT ![t].ret = "raise"]
          /\ UNCHANGED used
       \/ /\ snd[t].dev \in link /\ MayFail
          /\ snd' = [snd EXCEPT ![t].ret = "raise"]
          /\ used' = Fault
    /\ UNCHANGED <<is_connected, peripheral, connected_device, report_characteristic,
                   link, conn, disc, sent, wire, calls, bleak_vars, scan_vars, logged, encoded, input_text, last_text>>

\* The loops of lines 389-397 from service i on: up to the next await, or to the
\* return False of line 402.
SendScanFrom(t, i) ==
    IF i <= Len(Services(snd[t].dev))
    THEN /\ snd' = [snd EXCEPT ![t] = [@ EXCEPT !.pc = "chars", !.svc = i, !.ret = "pend"]]
         /\ UNCHANGED calls
    ELSE SendKeyReturns(t, FALSE, "nochar")

\* Line 388 returned or raised.
SendKey_AfterServices(t) ==
    /\ snd[t].pc = "services" /\ snd[t].ret \in {"ok", "raise"}
    /\ IF snd[t].ret = "ok"
       THEN SendScanFrom(t, 1)
       ELSE SendKeyReturns(t, FALSE, "raised")
    /\ UNCHANGED <<is_connected, peripheral, connected_device, report_characteristic,
                   link, conn, disc, sent, wire, used, bleak_vars, scan_vars, logged, encoded, input_text, last_text>>

\* Line 390 returned or raised; lines 391-396.
SendKey_AfterCharacteristics(t) ==
    LET s == snd[t]
        j == FindWritableChar(Services(s.dev)[s.svc].chars)
    IN
    /\ s.pc = "chars" /\ s.ret \in {"ok", "raise"}
    /\ IF s.ret = "raise"
       THEN SendKeyReturns(t, FALSE, "raised")
       ELSE IF j # 0
       THEN /\ snd' = [snd EXCEPT ![t] = [s EXCEPT !.pc = "fwrite", !.ret = "pend",
                                                   !.chr = <<s.dev, s.svc, j>>]]
            /\ UNCHANGED calls
       ELSE SendScanFrom(t, s.svc + 1)
    /\ UNCHANGED <<is_connected, peripheral, connected_device, report_characteristic,
                   link, conn, disc, sent, wire, used, bleak_vars, scan_vars, logged, encoded, input_text, last_text>>

(***************************************************************************)
(* The SimpleBLE service under any schedule of its coroutines.             *)
(***************************************************************************)
Next ==
    \/ \E d \in Devices : Connect_Call(d)
    \/ Backend_connect
    \/ Connect_AfterTransport
    \/ Backend_enumerate
    \/ Connect_AfterServices
    \/ Connect_AfterCharacteristics
    \/ Disconnect_Call
    \/ Backend_disconnect
    \/ Disconnect_Finally
    \/ \E t \in DOMAIN snd, text \in Texts : SendText_Call(t, text)
    \/ \E t \in DOMAIN snd, count \in 1..MaxTextLen : SendBackspaces_Call(t, count)
    \/ \E t \in DOMAIN snd : SendKey_Call(t)
    \/ \E t \in DOMAIN snd : Backend_write(t)
    \/ \E t \in DOMAIN snd : SendKey_AfterWrite(t)
    \/ \E t \in DOMAIN snd : Backend_enumerate_for_send(t)
    \/ \E t \in DOMAIN snd : SendKey_AfterServices(t)
    \/ \E t \in DOMAIN snd : SendKey_AfterCharacteristics(t)

Spec == Init /\ [][Next]_vars

(***************************************************************************)
(* send_character on every character, from the states a connect leaves     *)
(* the service in: disconnected, connected with the report characteristic  *)
(* of "pad" resolved, connected to "tag" without one.  A behaviour types   *)
(* one character, the one of its first send_character call.                *)
(***************************************************************************)
\* The KeyMapping domain: A-Z either case, 0-9, and the keys of special_chars.
KeyMappingDomain == (65..90) \cup (97..122) \cup (48..57) \cup DOMAIN special_chars

\* Characters outside the domain: the shifted punctuation, and non-ASCII characters.
OtherChars == ShiftedPunctuation \cup {8364, 233, 223, 305, 383}

InitKeys ==
    /\ \/ InitService /\ link = {}
       \/ /\ is_connected = TRUE /\ peripheral = "pad" /\ connected_device = "pad"
          /\ report_characteristic = <<"pad", 2, 2>> /\ link = {"pad"}
       \/ /\ is_connected = TRUE /\ peripheral = "tag" /\ connected_device = "tag"
          /\ report_characteristic = NoChar /\ link = {"tag"}
    /\ InitRest
    /\ InitBleak
    /\ InitScan
    /\ InitLog
    /\ InitCodec
    /\ InitApp

NextKeys ==
    \/ \E t \in DOMAIN snd, c \in KeyMappingDomain \cup OtherChars :
         /\ \A i \in 1..Len(sent) : sent[i].items = <<c>>
         /\ SendCharacter_Call(t, c)
    \/ \E t \in DOMAIN snd : SendKey_Call(t)
    \/ \E t \in DOMAIN snd : Backend_write(t)
    \/ \E t \in DOMAIN snd : SendKey_AfterWrite(t)
    \/ \E t \in DOMAIN snd : Backend_enumerate_for_send(t)
    \/ \E t \in DOMAIN snd : SendKey_AfterServices(t)
    \/ \E t \in DOMAIN snd : SendKey_AfterCharacteristics(t)
    \/ Disconnect_Call
    \/ Backend_disconnect
    \/ Disconnect_Finally

SpecKeys == InitKeys /\ [][NextKeys]_vars

(***************************************************************************)
(* BluetoothKeyboardService with BACKEND == "bleak".  The caller awaits    *)
(* each call before the next, so a call is one step; what the backend does *)
(* within it is chosen by the step.                                        *)
(***************************************************************************)
MaxBleakWrites == 2

\* char.handle of characteristic j of service i.
Handle(i, j) == 10 * i + j

BleakWritable(ch) == "write" \in ch.props \/ "write-without-response" \in ch.props

\* The handles of the characteristics of services, with the service index.
BleakChars(services) ==
    UNION {{<<i, j>> : j \in 1..Len(services[i].chars)} : i \in 1..Len(services)}

\* Lines 148-152: HID_SERVICE_UUID in str(service.uuid)
BleakHidService(services) ==
    FirstIndex({i \in 1..Len(services) : services[i].uuid = "1812"})

\* Lines 154-173: the handle connect stores, or 0 when it stores none.
BleakResolve(services) ==
    LET hid == BleakHidService(services) IN
    IF hid = 0
    THEN FirstIndex({Handle(p[1], p[2]) : p \in
           {q \in BleakChars(services) :
              services[q[1]].chars[q[2]].uuid \in {"report", "2a4d"}}})
    ELSE FirstIndex({Handle(hid, j) : j \in
           {k \in 1..Len(services[hid].chars) :
              /\ services[hid].chars[k].uuid \in {"report", "2a4d", "2a4b"}
              /\ BleakWritable(services[hid].chars[k])}})

\* Lines 258-265: the first characteristic with a write property.
BleakFirstWritable(services) ==
    FirstIndex({Handle(p[1], p[2]) : p \in
      {q \in BleakChars(services) : BleakWritable(services[q[1]].chars[q[2]])}})

\* Lines 274-277: the characteristic with the stored handle.
BleakCharWithHandle(services, h) ==
    {q \in BleakChars(services) : Handle(q[1], q[2]) = h}

\* connect(device), lines 126-183. The backend's part: connect raises ("raises"),
\* returns without a connection ("down"), connects and get_services raises
\* ("noservices"), connects and enumerates ("ok").
Bleak_connect(d, backend) ==
    /\ client' = d
    /\ bleak_link' = IF backend \in {"noservices", "ok"} THEN bleak_link \cup {d}
                     ELSE bleak_link
    /\ IF backend = "ok"
       THEN /\ report_char_handle' =
                 IF BleakResolve(Services(d)) # 0 THEN BleakResolve(Services(d))
                 ELSE report_char_handle
            /\ bleak_connected_device' = d
            /\ bleak_is_connected' = TRUE
            /\ bleak_last' = [op |-> "connect", result |-> "true"]
       ELSE /\ bleak_last' = [op |-> "connect", result |-> "false"]
            /\ UNCHANGED <<report_char_handle, bleak_connected_device, bleak_is_connected>>
    /\ UNCHANGED <<bleak_wire, simpleble_vars, scan_vars, logged, encoded, input_text, last_text>>

\* Lines 197-200.
BleakReset ==
    /\ bleak_is_connected' = FALSE
    /\ bleak_connected_device' = None
    /\ client' = None
    /\ report_char_handle' = 0

\* disconnect(), lines 187-200: client.disconnect() is awaited outside any try.
Bleak_disconnect(backend) ==
    /\ IF client # None /\ client \in bleak_link
       THEN IF backend = "ok"
            THEN /\ bleak_link' = bleak_link \ {client}
                 /\ BleakReset
                 /\ bleak_last' = [op |-> "disconnect", result |-> "returned"]
            ELSE /\ bleak_last' = [op |-> "disconnect", result |-> "raised"]
                 /\ UNCHANGED <<bleak_link, bleak_is_connected, bleak_connected_device,
                                client, report_char_handle>>
       ELSE /\ backend = "ok"
            /\ BleakReset
            /\ bleak_last' = [op |-> "disconnect", result |-> "returned"]
            /\ UNCHANGED bleak_link
    /\ UNCHANGED <<bleak_wire, simpleble_vars, scan_vars, logged, encoded, input_text, last_text>>

\* send_key(key_code, modifier), lines 249-287. The backend's part: every call
\* succeeds ("ok"), get_services raises ("noservices"), write_gatt_char raises
\* ("nowrite").
Bleak_send_key(key, backend) ==
    LET found == IF report_char_handle # 0 THEN report_char_handle
                 ELSE BleakFirstWritable(Services(client))
        hit == BleakCharWithHandle(Services(client), found)
        q == CHOOSE x \in hit : TRUE
        ch == Services(client)[q[1]].chars[q[2]]
        written(ok) ==
            [report |-> CreateHidReport(key[1], key[2]), dev |-> client, handle |-> found,
             response |-> "write-without-response" \notin ch.props, ok |-> ok]
    IN
    /\ Len(bleak_wire) < MaxBleakWrites
    /\ IF ~bleak_is_connected \/ client = None
       THEN /\ bleak_last' = [op |-> "send_key", result |-> "false"]
            /\ UNCHANGED <<report_char_handle, bleak_wire>>
       ELSE IF client \notin bleak_link
       THEN /\ bleak_last' = [op |-> "send_key", result |-> "false"]
            /\ UNCHANGED <<report_char_handle, bleak_wire>>
       ELSE IF backend = "noservices"
       THEN \* lines 258 (raises out of send_key) and 274 (caught, False)
            /\ bleak_last' = [op |-> "send_key",
                              result |-> IF report_char_handle = 0 THEN "raised" ELSE "false"]
            /\ UNCHANGED <<report_char_handle, bleak_wire>>
       ELSE IF found = 0
       THEN /\ bleak_last' = [op |-> "send_key", result |-> "false"]
            /\ UNCHANGED <<report_char_handle, bleak_wire>>
       ELSE /\ report_char_handle' = found
            /\ IF hit = {}
               THEN /\ bleak_last' = [op |-> "send_key", result |-> "false"]
                    /\ UNCHANGED bleak_wire
               ELSE IF ~BleakWritable(ch)
               THEN \* neither branch of lines 278-281 writes; line 282 returns True
                    /\ bleak_last' = [op |-> "send_key", result |-> "true"]
                    /\ UNCHANGED bleak_wire
               ELSE IF backend = "nowrite"
               THEN /\ bleak_wire' = Append(bleak_wire, written(FALSE))
                    /\ bleak_last' = [op |-> "send_key", result |-> "false"]
               ELSE /\ bleak_wire' = Append(bleak_wire, written(TRUE))
                    /\ bleak_last' = [op |-> "send_key", result |-> "true"]
    /\ UNCHANGED <<client, bleak_is_connected, bleak_connected_device, bleak_link,
                   simpleble_vars, scan_vars, logged, encoded, input_text, last_text>>

NextBleak ==
    \/ \E d \in Devices, b \in {"raises", "down", "noservices", "ok"} : Bleak_connect(d, b)
    \/ \E b \in {"ok", "raises"} : Bleak_disconnect(b)
    \/ \E key \in {<<4, 2>>, <<0, 0>>}, b \in {"ok", "noservices", "nowrite"} :
         Bleak_send_key(key, b)

SpecBleak == Init /\ [][NextBleak]_vars

(***************************************************************************)
(* The SimpleBLE service as BluetoothKeyboardApp drives it: one coroutine  *)
(* per text-changed event, per connect click and on close, all on the one  *)
(* event loop; run_in_executor hands each backend call to the loop's       *)
(* default thread pool.                                                    *)
(***************************************************************************)
MaxEvents == 2

\* What one text-changed event sends: the text typed since the last event.
EventTexts == [1..1 -> TextChars]

InitFront ==
    /\ InitService /\ link = {}
    /\ conn = ConnIdle
    /\ disc = DiscIdle
    /\ snd = [t \in 1..MaxEvents |-> SndIdle]
    /\ sent = <<>>
    /\ wire = <<>>
    /\ calls = <<>>
    /\ used = [connects |-> 0, disconnects |-> 0, sends |-> 0, faults |-> 0]
    /\ InitBleak
    /\ InitScan
    /\ InitLog
    /\ InitCodec
    /\ InitApp

\* on_closing ran: the window is destroyed, no further event arrives.
Closed == used.disconnects > 0

\* on_connect_clicked, lines 199-213: the button is disabled by the click and
\* enabled again by on_connect_complete only when the connect failed.
OnConnectClicked(d) ==
    /\ ~Closed
    /\ conn.result # "true"
    /\ Connect_Call(d)

\* on_text_changed, lines 251-268: nothing while not connected; else one new
\* send_text or send_backspaces coroutine (t is the first free coroutine slot).
OnTextChanged(t, kind, items) ==
    /\ ~Closed
    /\ is_connected
    /\ snd[t].pc = "idle"
    /\ \A u \in DOMAIN snd : u < t => snd[u].pc # "idle"
    /\ used.sends < MaxEvents
    /\ used' = [used EXCEPT !.sends = @ + 1]
    /\ sent' = Append(sent, [kind |-> kind, items |-> items])
    /\ snd' = [snd EXCEPT ![t] = [SndIdle EXCEPT !.pc = "ready", !.sid = Len(sent) + 1,
                                                 !.n = 1, !.ph = 1]]
    /\ UNCHANGED <<is_connected, peripheral, connected_device, report_characteristic,
                   link, conn, disc, wire, calls, bleak_vars, scan_vars, logged, encoded, input_text, last_text>>

\* on_closing, lines 290-294: disconnect() is scheduled when connected.
OnClosing ==
    /\ is_connected
    /\ Disconnect_Call

\* The event loop starts the scheduled coroutines in the order in which
\* run_coroutine_threadsafe handed them over: coroutine t takes its first step only
\* when no coroutine scheduled before it is still to take its own.
StartsInOrder(t) ==
    LET AtStart(u) == snd[u].pc = "ready" /\ snd[u].n = 1 /\ snd[u].ph = 1 IN
    AtStart(t) => \A u \in DOMAIN snd : AtStart(u) => snd[t].sid <= snd[u].sid

NextFront ==
    \/ \E d \in Devices : OnConnectClicked(d)
    \/ Backend_connect
    \/ Connect_AfterTransport
    \/ Backend_enumerate
    \/ Connect_AfterServices
    \/ Connect_AfterCharacteristics
    \/ \E t \in DOMAIN snd, text \in EventTexts :
         OnTextChanged(t, "text", [i \in 1..Len(text) |-> SendTextChar(text[i])])
    \/ \E t \in DOMAIN snd : OnTextChanged(t, "bs", <<0>>)
    \/ \E t \in DOMAIN snd : StartsInOrder(t) /\ SendKey_Call(t)
    \/ \E t \in DOMAIN snd : Backend_write(t)
    \/ \E t \in DOMAIN snd : SendKey_AfterWrite(t)
    \/ \E t \in DOMAIN snd : Backend_enumerate_for_send(t)
    \/ \E t \in DOMAIN snd : SendKey_AfterServices(t)
    \/ \E t \in DOMAIN snd : SendKey_AfterCharacteristics(t)
    \/ OnClosing
    \/ Backend_disconnect
    \/ Disconnect_Finally

SpecFront == InitFront /\ [][NextFront]_vars

(***************************************************************************)
(* The text widget of the front end while the service is connected: key    *)
(* releases after the user changed the text, and Clear Input clicks.  Up   *)
(* to MaxEvents events schedule a coroutine.                               *)
(***************************************************************************)
\* What the user may have in the widget: texts of letters and newlines.
WidgetTexts == UNION {[1..k -> {97, 10}] : k \in 0..MaxTextLen}

\* str.rstrip('\n'), line 257: the text without its trailing newlines.  (The
\* newline Tk appends to the widget's content goes with them.)
RECURSIVE RStrip(_)
RStrip(text) ==
    IF text # <<>> /\ text[Len(text)] = 10 THEN RStrip(SubSeq(text, 1, Len(text) - 1))
    ELSE text

\* A faulty slice that takes the whole text.
NewText_Whole(current_text) == current_text

\* Line 261: current_text[len(self.last_text):]
NewText(current_text) == SubSeq(current_text, Len(last_text) + 1, Len(current_text))

InitEdit ==
    /\ is_connected = TRUE /\ peripheral = "pad" /\ connected_device = "pad"
    /\ report_characteristic = <<"pad", 2, 2>> /\ link = {"pad"}
    /\ conn = ConnIdle
    /\ disc = DiscIdle
    /\ snd = [t \in 1..MaxEvents |-> SndIdle]
    /\ sent = <<>>
    /\ wire = <<>>
    /\ calls = <<>>
    /\ used = [connects |-> 0, disconnects |-> 0, sends |-> 0, faults |-> 0]
    /\ InitBleak
    /\ InitScan
    /\ InitLog
    /\ InitCodec
    /\ InitApp

\* on_text_changed, lines 251-268, on a key release that finds text in the widget.
on_text_changed(t, text) ==
    LET current_text == RStrip(text)
        new_text == NewText(current_text)
        \* run_coroutine_threadsafe, lines 262 and 266: the coroutine takes the
        \* first free slot t.
        Scheduled(kind, items) ==
            /\ snd[t].pc = "idle"
            /\ \A u \in DOMAIN snd : u < t => snd[u].pc # "idle"
            /\ used' = [used EXCEPT !.sends = @ + 1]
            /\ sent' = Append(sent, [kind |-> kind, items |-> items])
            /\ snd' = [snd EXCEPT ![t] = [SndIdle EXCEPT !.pc = "ready",
                                                         !.sid = Len(sent) + 1,
                                                         !.n = 1, !.ph = 1]]
    IN
    /\ used.sends < MaxEvents
    /\ is_connected
    /\ input_text' = text
    /\ last_text' = current_text
    /\ IF Len(current_text) > Len(last_text)
       THEN Scheduled("text", [i \in 1..Len(new_text) |-> SendTextChar(new_text[i])])
       ELSE IF Len(current_text) < Len(last_text)
       THEN Scheduled("bs", [i \in 1..(Len(last_text) - Len(current_text)) |-> 0])
       ELSE t = 1 /\ UNCHANGED <<used, sent, snd>>
    /\ UNCHANGED <<is_connected, peripheral, connected_device, report_characteristic,
                   link, conn, disc, wire, calls, bleak_vars, scan_vars, logged, encoded>>

\* on_clear_clicked, lines 285-288.
on_clear_clicked ==
    /\ input_text' = <<>>
    /\ last_text' = <<>>
    /\ UNCHANGED <<simpleble_vars, bleak_vars, scan_vars, logged, encoded>>

NextEdit ==
    \/ \E t \in DOMAIN snd, text \in WidgetTexts : on_text_changed(t, text)
    \/ on_clear_clicked
    \/ \E t \in DOMAIN snd : StartsInOrder(t) /\ SendKey_Call(t)
    \/ \E t \in DOMAIN snd : Backend_write(t)
    \/ \E t \in DOMAIN snd : SendKey_AfterWrite(t)

SpecEdit == InitEdit /\ [][NextEdit]_vars

\* The backend operations submitted to the executor and not yet finished.
InFlight ==
    (IF conn.ret = "pend" THEN {<<"connect", 0>>} ELSE {})
      \cup (IF disc.ret = "pend" THEN {<<"disconnect", 0>>} ELSE {})
      \cup {<<"send", t>> : t \in {u \in DOMAIN snd : snd[u].ret = "pend"}}

(***************************************************************************)
(* One send_character(c) or one send_backspace() on a service that is      *)
(* disconnected, resolved or degraded, for every character c.              *)
(***************************************************************************)
NextType ==
    \/ NextKeys
    \/ \E t \in DOMAIN snd : sent = <<>> /\ SendBackspaces_Call(t, 1)

SpecType == InitKeys /\ [][NextType]_vars

\* The keycode table of the KeyMapping component.
KeycodeTable(c) ==
    CASE c \in 65..90 -> c - 65 + 4
      [] c \in 97..122 -> c - 97 + 4
      [] c \in 49..57 -> c - 49 + 30
      [] c = 48 -> 39
      [] c \in {10, 13} -> 40
      [] c = 9 -> 43
      [] c = 32 -> 44
      [] c = 45 -> 45
      [] c = 61 -> 46
      [] c = 91 -> 47
      [] c = 93 -> 48
      [] c = 92 -> 49
      [] c = 59 -> 51
      [] c = 39 -> 52
      [] c = 96 -> 53
      [] c = 44 -> 54
      [] c = 46 -> 55
      [] c = 47 -> 56

(***************************************************************************)
(* send_text(text) and send_backspaces(count) calls, one after the other,  *)
(* on a service that is disconnected, resolved or degraded; the backend    *)
(* may fail a write.  A call types one character of any kind, or a text of *)
(* the characters TailChars; a call after the first follows a call of one  *)
(* item and has one item.                                                  *)
(***************************************************************************)
MaxCalls == 2

\* 'a', 'A', '1', the euro sign, sharp s, dotless i.
TailChars == {97, 65, 49, 8364, 223, 305}

TypedTexts ==
    {<<c>> : c \in KeyMappingDomain \cup OtherChars} \cup (SeqsUpTo(TailChars, MaxTextLen) \ {<<>>})

\* The call before has returned and at most MaxCalls calls are made.
CanCall(t) == snd[t].pc = "idle" /\ Len(sent) < MaxCalls

TextCalled(t, kind, items) ==
    /\ Len(sent) > 0 =>
         /\ Len(items) = 1 /\ items[1] \in TailChars \cup {0}
         /\ \A i \in 1..Len(sent) :
              Len(sent[i].items) = 1 /\ sent[i].items[1] \in TailChars \cup {0}
    /\ used' = [used EXCEPT !.sends = @ + 1]
    /\ sent' = Append(sent, [kind |-> kind, items |-> items])
    /\ snd' = [snd EXCEPT ![t] = [SndIdle EXCEPT !.pc = "ready", !.sid = Len(sent) + 1,
                                                 !.n = 1, !.ph = 1]]
    /\ UNCHANGED <<is_connected, peripheral, connected_device, report_characteristic,
                   link, conn, disc, wire, calls, bleak_vars, scan_vars, logged, encoded, input_text, last_text>>

NextText ==
    \/ \E t \in DOMAIN snd :
         /\ CanCall(t)
         /\ \E text \in TypedTexts :
              TextCalled(t, "text", [i \in 1..Len(text) |-> SendTextChar(text[i])])
    \/ \E t \in DOMAIN snd :
         /\ CanCall(t)
         /\ \E count \in 1..MaxTextLen : TextCalled(t, "bs", [i \in 1..count |-> 0])
    \/ \E t \in DOMAIN snd : SendKey_Call(t)
    \/ \E t \in DOMAIN snd : Backend_write(t)
    \/ \E t \in DOMAIN snd : SendKey_AfterWrite(t)
    \/ \E t \in DOMAIN snd : Backend_enumerate_for_send(t)
    \/ \E t \in DOMAIN snd : SendKey_AfterServices(t)
    \/ \E t \in DOMAIN snd : SendKey_AfterCharacteristics(t)

SpecText == InitKeys /\ [][NextText]_vars

\* What the caller of send_character(c) or send_backspace() gets: every path
\* returns None and the results of the send_key calls are dropped; only the
\* TypeError of _char_to_hid_code leaves by an exception.
SendCharacterOutcome(kind, c) ==
    IF kind # "bs" /\ CharToHidCode(c) = CodeRaises THEN "TypeError" ELSE "None"

(***************************************************************************)
(* connect() of both services on the peers that expose the standard report *)
(* characteristic next to an unrelated one named "report".                 *)
(***************************************************************************)
\* The properties of the characteristic of peer d whose bleak handle is h.
BleakProps(d, h) ==
    LET q == CHOOSE x \in BleakCharWithHandle(Services(d), h) : TRUE
    IN Services(d)[q[1]].chars[q[2]].props

MixedPeers == {"standard_first", "standard_last", "service_first", "service_last"}

NextResolve ==
    \/ \E d \in MixedPeers : Connect_Call(d)
    \/ Backend_connect
    \/ Connect_AfterTransport
    \/ Backend_enumerate
    \/ Connect_AfterServices
    \/ Connect_AfterCharacteristics
    \/ \E d \in MixedPeers, b \in {"raises", "down", "noservices", "ok"} : Bleak_connect(d, b)

SpecResolve == Init /\ [][NextResolve]_vars

\* The UUID of the characteristic of peer d whose bleak handle is h.
BleakUuid(d, h) ==
    LET q == CHOOSE x \in BleakCharWithHandle(Services(d), h) : TRUE
    IN Services(d)[q[1]].chars[q[2]].uuid

(***************************************************************************)
(* The first connect() of each service, on every kind of peer: with the    *)
(* standard layout, with characteristics in either order, with a HID       *)
(* service that has only 2a4b, and without a 1812 service.                 *)
(***************************************************************************)
PathPeers ==
    {"pad", "tag", "standard_first", "standard_last", "map_only", "vendor",
     "vendor_readonly"}

NextPaths ==
    \/ \E d \in PathPeers : used.connects = 0 /\ Connect_Call(d)
    \/ Backend_connect
    \/ Connect_AfterTransport
    \/ Backend_enumerate
    \/ Connect_AfterServices
    \/ Connect_AfterCharacteristics
    \/ \E d \in PathPeers, b \in {"raises", "down", "noservices", "ok"} :
         client = None /\ Bleak_connect(d, b)

SpecPaths == Init /\ [][NextPaths]_vars

(***************************************************************************)
(* The encoders of the three services side by side: each is given the same *)
(* character, or the same key code and modifier, and its result is kept.   *)
(***************************************************************************)
MaxByte == 255

CodecInputs ==
    {[NoInput EXCEPT !.kind = "char", !.a = c] : c \in KeyMappingDomain \cup OtherChars}
    \cup {[NoInput EXCEPT !.kind = "report", !.a = k, !.b = m] :
            k \in 0..MaxByte, m \in 0..MaxByte}

InitEncode ==
    /\ InitService /\ link = {} /\ InitRest /\ InitBleak /\ InitScan /\ InitLog
    /\ encoded \in CodecInputs
    /\ InitApp

\* Service s ran its encoder on the input: result is what it returned.
Encoded(s, result) ==
    /\ encoded.out[s] = <<>>
    /\ encoded' = [encoded EXCEPT !.out[s] = result]
    /\ UNCHANGED <<simpleble_vars, bleak_vars, scan_vars, logged, input_text, last_text>>

\* BluetoothKeyboardService: _char_to_hid_code and the shift decision of
\* send_character, or _create_hid_report.
Bleak_encode ==
    Encoded("bleak",
            IF encoded.kind = "char"
            THEN <<Bleak_CharToHidCode(encoded.a), Bleak_Modifier(encoded.a)>>
            ELSE Bleak_CreateHidReport(encoded.a, encoded.b))

\* SimpleBLEKeyboardService
SimpleBLE_encode ==
    Encoded("simpleble",
            IF encoded.kind = "char"
            THEN <<CharToHidCode(encoded.a), Modifier(encoded.a)>>
            ELSE CreateHidReport(encoded.a, encoded.b))

\* WindowsBluetoothKeyboardService
Windows_encode ==
    Encoded("windows",
            IF encoded.kind = "char"
            THEN <<Windows_CharToHidCode(encoded.a), Windows_Modifier(encoded.a)>>
            ELSE Windows_CreateHidReport(encoded.a, encoded.b))

NextEncode == Bleak_encode \/ SimpleBLE_encode \/ Windows_encode

SpecEncode == InitEncode /\ [][NextEncode]_vars

(***************************************************************************)
(* Sequences of connect() and disconnect() calls on both services, each    *)
(* called when the call before it has returned, with disconnect called up  *)
(* to MaxRepeats times.                                                    *)
(***************************************************************************)
MaxRepeats == 2

NextLink ==
    \/ \E d \in Devices : disc.pc = "idle" /\ Connect_Call(d)
    \/ Backend_connect
    \/ Connect_AfterTransport
    \/ Backend_enumerate
    \/ Connect_AfterServices
    \/ Connect_AfterCharacteristics
    \/ conn.pc = "idle" /\ used.disconnects < MaxRepeats /\ DisconnectCalled
    \/ Backend_disconnect
    \/ Disconnect_Finally
    \/ \E b \in {"raises", "down", "noservices", "ok"} : Bleak_connect("pad", b)
    \/ \E b \in {"ok", "raises"} : Bleak_disconnect(b)

SpecLink == Init /\ [][NextLink]_vars

(***************************************************************************)
(* scan_for_devices(timeout) and the scan-found callback.  A device-found  *)
(* event is what the callback reads off the backend's device object: its   *)
(* identifier ("" when the device advertises no name), its address         *)
(* ("Unknown" when no accessor yields one) and the object itself.          *)
(***************************************************************************)
MaxScans == 2
MaxFound == 3

EventNames == {"", "Pad", "Kbd"}
EventAddresses == {"AA", "BB", "Unknown"}

Event(name, address, handle) ==
    [name |-> name, address |-> address, device_handle |-> handle]

\* A faulty _on_device_found: a later event replaces the record of its address.
OnDeviceFound_LastSeen(devices, ev) ==
    IF ev.address = "Unknown" THEN devices
    ELSE LET rec == [name |-> IF ev.name = "" THEN "Unknown" ELSE ev.name,
                     address |-> ev.address, device_handle |-> ev.device_handle]
         IN IF \E i \in 1..Len(devices) : devices[i].address = ev.address
            THEN [i \in 1..Len(devices) |->
                    IF devices[i].address = ev.address THEN rec ELSE devices[i]]
            ELSE Append(devices, rec)

\* A faulty _on_device_found without the return of lines 187-189: a device without
\* an address gets a record too.
OnDeviceFound_KeepsNoAddress(devices, ev) ==
    IF \E i \in 1..Len(devices) : devices[i].address = ev.address THEN devices
    ELSE Append(devices, [name |-> IF ev.name = "" THEN "Unknown" ELSE ev.name,
                          address |-> ev.address, device_handle |-> ev.device_handle])

\* _on_device_found, lines 187-201: the list after the callback ran on ev.
OnDeviceFound(devices, ev) ==
    IF ev.address = "Unknown" THEN devices
    ELSE IF \E i \in 1..Len(devices) : devices[i].address = ev.address THEN devices
    ELSE Append(devices, [name |-> IF ev.name = "" THEN "Unknown" ELSE ev.name,
                          address |-> ev.address, device_handle |-> ev.device_handle])

\* The for loop of lines 132-133: _on_device_found on each polled device in turn.
RECURSIVE OnDevicesFound(_, _)
OnDevicesFound(devices, evs) ==
    IF evs = <<>> THEN devices
    ELSE OnDevicesFound(OnDeviceFound(devices, Head(evs)), Tail(evs))

\* Line 188: the diagnostics _on_device_found logs for the events evs of the
\* current scan, one for each device without an address.
NoAddressLogs(evs) ==
    {LogEntry("found", scan.runs, evs[i].device_handle) :
       i \in {j \in 1..Len(evs) : evs[j].address = "Unknown"}}

\* Lines 56-113: self.scanned_devices is bound to a new list; without an adapter
\* the scan logs that and returns a new empty list at once, else the callbacks
\* are set, the scan starts and the coroutine sleeps.  scan.result is the list the
\* last return handed out, scan.returned what it held then, and scan.aliased says
\* that self.scanned_devices still is that list.
Scan_Call(adapter) ==
    /\ scan.pc = "idle"
    /\ scan.runs < MaxScans
    /\ scanned_devices' = <<>>
    /\ seen' = <<>>
    /\ IF adapter = "none"
       THEN /\ scan' = [scan EXCEPT !.runs = @ + 1, !.result = <<>>, !.returned = <<>>,
                                    !.aliased = FALSE]
            /\ logged' = logged \cup {LogEntry("scan", scan.runs + 1, 0)}
       ELSE /\ scan' = [scan EXCEPT !.pc = "scanning", !.runs = @ + 1,
                                    !.aliased = FALSE, !.hooked = TRUE]
            /\ UNCHANGED <<logged, encoded, input_text, last_text>>
    /\ UNCHANGED <<simpleble_vars, bleak_vars, encoded, input_text, last_text>>

\* The backend calls _on_device_found while the scan runs, and in the half second
\* the coroutine waits after scan_stop.
Backend_found(name, address) ==
    LET ev == Event(name, address, Len(seen) + 1) IN
    /\ scan.pc \in {"scanning", "settling"}
    /\ Len(seen) < MaxFound
    /\ seen' = Append(seen, ev)
    /\ scanned_devices' = OnDeviceFound(scanned_devices, ev)
    /\ logged' = logged \cup NoAddressLogs(<<ev>>)
    /\ UNCHANGED <<scan, simpleble_vars, bleak_vars, encoded, input_text, last_text>>

\* Lines 115-126: scan_stop, then the wait for final callbacks.
Scan_Stop ==
    /\ scan.pc = "scanning"
    /\ scan' = [scan EXCEPT !.pc = "settling"]
    /\ UNCHANGED <<scanned_devices, seen, simpleble_vars, bleak_vars, logged, encoded, input_text, last_text>>

\* Lines 128-144: with an empty list the backend's scan results are polled; the
\* list itself is returned.
Scan_Return(polled) ==
    LET evs == [i \in 1..Len(polled) |->
                  Event(polled[i][1], polled[i][2], Len(seen) + i)]
    IN
    /\ scan.pc = "settling"
    /\ Len(seen) + Len(polled) <= MaxFound
    /\ Len(scanned_devices) # 0 => polled = <<>>
    /\ seen' = seen \o evs
    /\ scanned_devices' = OnDevicesFound(scanned_devices, evs)
    /\ scan' = [scan EXCEPT !.pc = "idle", !.result = scanned_devices',
                            !.returned = scanned_devices', !.aliased = TRUE]
    /\ logged' = logged \cup NoAddressLogs(evs)
    /\ UNCHANGED <<simpleble_vars, bleak_vars, encoded, input_text, last_text>>

\* What scan_get_results may hold: up to n devices.
PolledUpTo(n) == UNION {[1..k -> EventNames \X EventAddresses] : k \in 0..n}

\* What the poll of lines 130-133 may get: it runs when the list is empty.
PolledNow ==
    IF scan.pc = "settling" /\ Len(scanned_devices) = 0
    THEN PolledUpTo(MaxFound - Len(seen)) ELSE {<<>>}

NextScan ==
    \/ \E adapter \in {"ok", "none"} : Scan_Call(adapter)
    \/ \E name \in EventNames, address \in EventAddresses : Backend_found(name, address)
    \/ Scan_Stop
    \/ \E polled \in PolledNow : Scan_Return(polled)

SpecScan == Init /\ [][NextScan]_vars

\* The callbacks of lines 91-92 stay set on the adapter after scan_for_devices
\* returned: the backend calls _on_device_found between two scans.  The callback
\* appends to self.scanned_devices, which is the list line 144 returned (and the
\* front end keeps as self.devices, main_simpleble.py line 169) until line 60 binds
\* the attribute to a new list.
Backend_found_late(name, address) ==
    LET ev == Event(name, address, Len(seen) + 1) IN
    /\ scan.pc = "idle" /\ scan.hooked
    /\ Len(seen) < MaxFound
    /\ seen' = Append(seen, ev)
    /\ scanned_devices' = OnDeviceFound(scanned_devices, ev)
    /\ scan' = [scan EXCEPT !.result = IF scan.aliased THEN scanned_devices' ELSE @]
    /\ logged' = logged \cup NoAddressLogs(<<ev>>)
    /\ UNCHANGED <<simpleble_vars, bleak_vars, encoded, input_text, last_text>>

NextScanLate ==
    \/ NextScan
    \/ \E name \in EventNames, address \in EventAddresses : Backend_found_late(name, address)

SpecScanLate == Init /\ [][NextScanLate]_vars

(***************************************************************************)
(* Properties.                                                             *)
(***************************************************************************)
\* Item n of send sid is completed: no sender is still at it or before it.
Completed(sid, n) ==
    /\ sid \in 1..Len(sent) /\ n \in 1..Len(sent[sid].items)
    /\ \A t \in DOMAIN snd :
         (snd[t].pc # "idle" /\ snd[t].sid = sid) => snd[t].n > n

\* The positions in a history h of the entries of item n of send sid.
Of(h, sid, n) == {i \in 1..Len(h) : h[i].sid = sid /\ h[i].n = n}

IsPress(report) == report[3] # 0

ExpectedReport(sid, n, ph) ==
    LET c == sent[sid].items[n] IN
    IF ph = 2 THEN ReleaseReport
    ELSE IF sent[sid].kind = "bs" THEN CreateHidReport(42, 0)
    ELSE CreateHidReport(CharToHidCode(c), Modifier(c))

\* C2: within one send_text call the reports reach the backend in the order of the
\* characters of the text, the press report of a character before its release
\* report and before any report of a later character.
C2_ReportsInTextOrder ==
    \A i, j \in 1..Len(wire) :
      /\ wire[i].report = ExpectedReport(wire[i].sid, wire[i].n, wire[i].ph)
      /\ (i < j /\ wire[i].sid = wire[j].sid)
           => \/ wire[i].n < wire[j].n
              \/ wire[i].n = wire[j].n /\ wire[i].ph < wire[j].ph

\* C2 witness: both reports of the first and a report of the second character of a
\* text reached the backend.
C2_Witness ==
    \E i, j, k \in 1..Len(wire) :
      /\ sent[wire[i].sid].kind = "text"
      /\ wire[i].sid = wire[j].sid /\ wire[j].sid = wire[k].sid
      /\ wire[i].n = 1 /\ wire[i].ph = 1 /\ wire[j].n = 1 /\ wire[j].ph = 2
      /\ wire[k].n = 2
      /\ sent[wire[i].sid].items[1] # sent[wire[i].sid].items[2]

\* C3 as stated: every press report delivered to the backend is followed by an
\* all-zero release report delivered to the backend.
C3_EveryPressReleased ==
    \A i \in 1..Len(wire) :
      (wire[i].ok /\ IsPress(wire[i].report) /\ Completed(wire[i].sid, wire[i].n))
      => \E j \in 1..Len(wire) :
           j > i /\ wire[j].ok /\ wire[j].report = ReleaseReport

\* C3 amended: every press report delivered to the backend is followed by one
\* send_key call for the all-zero release report made by the same send_character
\* or send_backspace call; the release is delivered after the press when that call
\* returns True, and is neither delivered nor retried when it returns False (the
\* service is no longer connected, or the backend write failed).
C3_EveryPressFollowedByReleaseCall ==
    \A i \in 1..Len(wire) :
      (wire[i].ok /\ IsPress(wire[i].report) /\ Completed(wire[i].sid, wire[i].n))
      => \E a \in Of(calls, wire[i].sid, wire[i].n) :
           /\ calls[a].key = <<0, 0>>
           /\ \A b \in Of(calls, wire[i].sid, wire[i].n) : calls[b].key = <<0, 0>> => b = a
           /\ LET R == {j \in Of(wire, wire[i].sid, wire[i].n) :
                          j > i /\ wire[j].ok /\ wire[j].report = ReleaseReport}
              IN IF calls[a].ret THEN Cardinality(R) = 1 ELSE R = {}

\* C3 witness: a press was delivered and the release call of the same character
\* returned False.
C3_Witness ==
    \E i \in 1..Len(wire), a \in 1..Len(calls) :
      /\ wire[i].ok /\ IsPress(wire[i].report) /\ Completed(wire[i].sid, wire[i].n)
      /\ calls[a].sid = wire[i].sid /\ calls[a].n = wire[i].n
      /\ calls[a].key = <<0, 0>> /\ ~calls[a].ret

\* C4: on a connection without a resolved report characteristic every send_key
\* fails and delivers nothing to the backend.
C4_DegradedDeliversNothing ==
    /\ \A i \in 1..Len(wire) : wire[i].resolved
    /\ \A a \in 1..Len(calls) : calls[a].path = "fwrite" => ~calls[a].ret

\* C5: connect returns success and ends in the connected state whenever the
\* transport-level connect succeeded.
C5_LinkedConnectSucceeds ==
    [][(conn.pc # "idle" /\ conn'.pc = "idle" /\ conn.linked)
         => (conn'.result = "true" /\ is_connected')]_vars

\* C6: when the transport-level connect fails, connect returns failure and the
\* service is in the disconnected state afterwards.
C6_FailedConnectDisconnected ==
    [][(conn.pc = "connect" /\ conn.ret = "raise" /\ conn'.pc = "idle")
         => (conn'.result = "false" /\ ~is_connected')]_vars

\* The step in which a disconnect() of the SimpleBLE service returns.
DisconnectReturned ==
    \/ (used'.disconnects > used.disconnects /\ disc'.pc = "idle")
    \/ (disc.pc = "wait" /\ disc'.pc = "idle")

\* C7: after every call of disconnect(), also when the backend disconnect call
\* raises, the service is disconnected and its characteristic, device and
\* peripheral or client are cleared, in the SimpleBLE and in the bleak-path service.
C7_DisconnectAlwaysResets ==
    [][/\ DisconnectReturned
            => (~is_connected' /\ report_characteristic' = NoChar
                /\ connected_device' = None /\ peripheral' = None)
       /\ bleak_last'.op = "disconnect"
            => (~bleak_is_connected' /\ report_char_handle' = 0
                /\ bleak_connected_device' = None /\ client' = None)]_vars

\* What does hold of C7: the SimpleBLE service alone resets on every disconnect().
C7_SimpleBLEDisconnectResets ==
    [][DisconnectReturned
         => (~is_connected' /\ report_characteristic' = NoChar
             /\ connected_device' = None /\ peripheral' = None)]_vars

\* C8: once a disconnect has completed, is_connected becomes True only through a
\* connect that was issued after that disconnect.
C8_NoConnectedAfterDisconnect ==
    [][(~is_connected /\ is_connected') => ~conn.stale]_vars

\* C9: once a disconnect tore the link down under a suspended send, no later write
\* of that send is delivered to the backend. (Sends that a connect already in
\* flight at the disconnect brought back, the case of C8, are set aside.)
C9_NoWriteAfterDisconnect ==
    \A i \in 1..Len(wire) : (wire[i].torn /\ ~wire[i].stale) => ~wire[i].ok

\* What does hold of a send a disconnect completed under: until a connect sets
\* is_connected again, send_key finds the service unusable, no write of that send
\* reaches the backend (a pending one fails), a call of that send that returns True
\* had its write delivered before the disconnect completed, and no report is
\* attempted twice.
C9_CutSendWritesNothing ==
    /\ \A t \in DOMAIN snd : snd[t].cut => (~is_connected /\ peripheral = None)
    /\ \A i \in 1..Len(wire) : ~wire[i].cut
    /\ \A a \in 1..Len(calls) :
         (calls[a].cut /\ calls[a].ret)
           => \E i \in Of(wire, calls[a].sid, calls[a].n) :
                wire[i].ph = calls[a].ph /\ wire[i].ok /\ ~wire[i].cut
    /\ \A a, b \in 1..Len(calls) :
         (calls[a].sid = calls[b].sid /\ calls[a].n = calls[b].n
            /\ calls[a].ph = calls[b].ph) => a = b

\* The case of C9: a send_key call of a send delivered its report, a disconnect then
\* completed under the send, its pending write failed and the next send_key call of
\* it returned False for want of a connection.
C9_Witness ==
    \E a, b, c \in 1..Len(calls) :
      /\ a < b /\ b < c /\ calls[a].sid = calls[b].sid /\ calls[b].sid = calls[c].sid
      /\ calls[a].ret /\ ~calls[a].cut
      /\ calls[b].cut /\ calls[b].why = "raised" /\ calls[b].path = "write"
      /\ calls[c].cut /\ calls[c].why = "notconn"

\* C10: a send_key call made while the service is not connected returns False and
\* makes no backend call.
C10_NotConnectedNoBackendCall ==
    [][\A t \in DOMAIN snd :
         (snd[t].pc = "ready" /\ ~is_connected)
           => /\ snd'[t].pc \in {"ready", "idle"}
              /\ wire' = wire
              /\ Len(calls') > Len(calls) => ~calls'[Len(calls')].ret]_vars

\* C10 witness: after a disconnect, a send_key call returned False for want of a
\* connection.
C10_Witness ==
    /\ used.disconnects > 0
    /\ \E a \in 1..Len(calls) : calls[a].why = "notconn" /\ ~calls[a].ret

\* C11: at every moment at most one backend operation (connect, disconnect,
\* enumeration or write) of the service is in flight, as the front end drives it.
C11_OneBackendOperation == Cardinality(InFlight) <= 1

\* The first device-found event of the current scan with the address of rec.
FirstSeen(rec) ==
    seen[CHOOSE k \in 1..Len(seen) :
           /\ seen[k].address = rec.address
           /\ \A j \in 1..(k - 1) : seen[j].address # rec.address]

\* C12 as stated: the scan result holds at most one record per address, and the
\* record carries the name and the handle of the first event seen for the address.
C12_FirstSeenRecord ==
    /\ \A i, j \in 1..Len(scanned_devices) :
         scanned_devices[i].address = scanned_devices[j].address => i = j
    /\ \A i \in 1..Len(scanned_devices) :
         /\ \E k \in 1..Len(seen) : seen[k].address = scanned_devices[i].address
         /\ scanned_devices[i].name = FirstSeen(scanned_devices[i]).name
         /\ scanned_devices[i].device_handle = FirstSeen(scanned_devices[i]).device_handle
    /\ scan.pc = "idle" => scan.result = scanned_devices

\* C12 amended: the scan result holds at most one record per address, every address
\* but "Unknown" that an event carried has its record, and the record carries the
\* handle of the first event seen for the address and that event's name, or
\* "Unknown" when that event had no name; later events change nothing.
C12_FirstSeenRecordNamed ==
    /\ \A i, j \in 1..Len(scanned_devices) :
         scanned_devices[i].address = scanned_devices[j].address => i = j
    /\ \A k \in 1..Len(seen) :
         seen[k].address # "Unknown"
           <=> \E i \in 1..Len(scanned_devices) : scanned_devices[i].address = seen[k].address
    /\ \A i \in 1..Len(scanned_devices) :
         /\ \E k \in 1..Len(seen) : seen[k].address = scanned_devices[i].address
         /\ scanned_devices[i].name =
              (IF FirstSeen(scanned_devices[i]).name = "" THEN "Unknown"
               ELSE FirstSeen(scanned_devices[i]).name)
         /\ scanned_devices[i].device_handle = FirstSeen(scanned_devices[i]).device_handle
    /\ scan.pc = "idle" => scan.result = scanned_devices

\* C12 witness: a scan returned after the same address was reported twice with
\* different names.
C12_Witness ==
    /\ scan.pc = "idle" /\ Len(scan.result) = 1
    /\ \E j, k \in 1..Len(seen) :
         /\ j < k /\ seen[j].address = seen[k].address /\ seen[j].address # "Unknown"
         /\ seen[j].name # "" /\ seen[k].name # "" /\ seen[j].name # seen[k].name

\* C13: on a peer that exposes the standard report characteristic 2a4d in the 1812
\* service and an unrelated writable characteristic named "report", the characteristic
\* connect() resolves is 2a4d, in every enumeration order (SimpleBLE and bleak service).
C13_ResolvesStandardUuid ==
    /\ (report_characteristic # NoChar /\ report_characteristic[1] \in MixedPeers)
         => CharUuid(report_characteristic) = "2a4d"
    /\ (report_char_handle # 0 /\ client \in MixedPeers)
         => BleakUuid(client, report_char_handle) = "2a4d"

\* C13, the SimpleBLE service alone.
C13_SimpleBLEResolvesStandardUuid ==
    (report_characteristic # NoChar /\ report_characteristic[1] \in MixedPeers)
      => CharUuid(report_characteristic) = "2a4d"

\* C13, the bleak service alone.
C13_BleakResolvesStandardUuid ==
    (report_char_handle # 0 /\ client \in MixedPeers)
      => BleakUuid(client, report_char_handle) = "2a4d"

\* C13 witness: a connect() on a peer that enumerates the standard characteristic
\* first resolved it.
C13_Witness ==
    /\ conn.result = "true" /\ report_characteristic # NoChar
    /\ report_characteristic[1] = "standard_first"
    /\ CharUuid(report_characteristic) = "2a4d"

\* C14: a report write on the resolved characteristic is a without-response write
\* (SimpleBLE: write_command) when the characteristic is writable without response.
C14_WithoutResponseWhenOffered ==
    \A i \in 1..Len(wire) :
      (wire[i].resolved /\ "write-without-response" \in wire[i].props)
        => wire[i].method = "write_command"

\* C14 on the bleak service: write_gatt_char is called with response=False exactly
\* when the resolved characteristic offers write-without-response.
C14_BleakWithoutResponseWhenOffered ==
    \A i \in 1..Len(bleak_wire) :
      bleak_wire[i].response
        <=> "write-without-response" \notin BleakProps(bleak_wire[i].dev, bleak_wire[i].handle)

\* C14 witness: a press report was written to the resolved characteristic 2a4d of
\* the pad, which is writable without response.
C14_Witness ==
    \E i \in 1..Len(wire) :
      /\ wire[i].resolved /\ wire[i].ok /\ wire[i].uuid = "2a4d"
      /\ "write-without-response" \in wire[i].props

\* The character (0 for a backspace) the send_key call recorded in calls[i] is for.
CharOf(i) == sent[calls[i].sid].items[calls[i].n]

\* C15: for every character of the KeyMapping domain the keycode send_character
\* presses is the one of the keycode table (letters 4..29, '1'..'9' 30..38, '0' 39,
\* Enter 40, Tab 43, Space 44, punctuation 45..56), and send_backspace presses 42.
C15_KeycodeTable ==
    /\ \A i \in 1..Len(calls) :
         calls[i].ph = 1 =>
           IF sent[calls[i].sid].kind = "bs" THEN calls[i].key[1] = 42
           ELSE CharOf(i) \in KeyMappingDomain => calls[i].key[1] = KeycodeTable(CharOf(i))
    /\ \A sid \in 1..Len(sent) :
         (Completed(sid, 1) /\ (sent[sid].kind = "bs" \/ sent[sid].items[1] \in KeyMappingDomain))
           => \E i \in Of(calls, sid, 1) : calls[i].ph = 1

\* C15 witness: send_character('0') pressed keycode 39 and the write succeeded.
C15_Witness ==
    \E i \in 1..Len(calls) :
      /\ sent[calls[i].sid].kind = "char" /\ CharOf(i) = 48
      /\ calls[i].ph = 1 /\ calls[i].key[1] = 39 /\ calls[i].ret

\* C15 witness for send_backspace: keycode 42 was pressed and the write succeeded.
C15_BackspaceWitness ==
    \E i \in 1..Len(calls) :
      /\ sent[calls[i].sid].kind = "bs"
      /\ calls[i].ph = 1 /\ calls[i].key[1] = 42 /\ calls[i].ret

\* The other case form of an ASCII letter.
Swapcase(c) == IF c \in 65..90 THEN c + 32 ELSE c - 32

\* C16: an ASCII letter is pressed with the keycode of its other case form, the
\* press report of an uppercase letter carries Left Shift (0x02) and that of a
\* lowercase letter modifier 0; the press report of every other character of the
\* KeyMapping domain carries modifier 0.
C16_ShiftOnlyForUppercase ==
    /\ \A i \in 1..Len(calls) :
         (sent[calls[i].sid].kind = "char" /\ calls[i].ph = 1
            /\ CharOf(i) \in KeyMappingDomain)
           => /\ calls[i].key[2] = (IF CharOf(i) \in 65..90 THEN 2 ELSE 0)
              /\ CharOf(i) \in (65..90) \cup (97..122)
                   => calls[i].key[1] = CharToHidCode(Swapcase(CharOf(i)))
    /\ \A i \in 1..Len(wire) :
         LET c == sent[wire[i].sid].items[wire[i].n] IN
         (sent[wire[i].sid].kind = "char" /\ wire[i].ph = 1 /\ c \in KeyMappingDomain)
           => /\ wire[i].report[1] = (IF c \in 65..90 THEN 2 ELSE 0)
              /\ c \in (65..90) \cup (97..122)
                   => wire[i].report[3] = CharToHidCode(Swapcase(c))

\* C16 witness: the press report of 'Q' was written with Left Shift and the
\* keycode of 'q'.
C16_Witness ==
    \E i \in 1..Len(wire) :
      /\ sent[wire[i].sid].kind = "char" /\ sent[wire[i].sid].items[wire[i].n] = 81
      /\ wire[i].ph = 1 /\ wire[i].ok
      /\ wire[i].report[1] = 2 /\ wire[i].report[3] = CharToHidCode(113)

\* C17: for a character outside the KeyMapping domain, _char_to_hid_code returns
\* none (send_character then prints the unsupported-character diagnostic and
\* returns), and send_character makes no send_key call and emits no write.
C17_OutsideDomainUnsupported ==
    \A sid \in 1..Len(sent) :
      (sent[sid].kind = "char" /\ sent[sid].items[1] \notin KeyMappingDomain)
        => /\ CharToHidCode(sent[sid].items[1]) = NoCode
           /\ Of(calls, sid, 1) = {}
           /\ Of(wire, sid, 1) = {}

\* C17 for the characters whose uppercase form is neither an ASCII letter nor
\* begins with one: the shifted punctuation, the euro sign, e acute.
C17_PlainOutsideDomainUnsupported ==
    \A sid \in 1..Len(sent) :
      (sent[sid].kind = "char" /\ sent[sid].items[1] \in ShiftedPunctuation \cup {8364, 233})
        => /\ CharToHidCode(sent[sid].items[1]) = NoCode
           /\ Of(calls, sid, 1) = {}
           /\ Of(wire, sid, 1) = {}

\* C17 witness: send_character of the euro sign returned on a connected service and
\* nothing was sent.
C17_Witness ==
    \E sid \in 1..Len(sent) :
      /\ sent[sid].kind = "char" /\ sent[sid].items[1] = 8364
      /\ Completed(sid, 1) /\ is_connected
      /\ Of(calls, sid, 1) = {} /\ Of(wire, sid, 1) = {}

\* C18: every report handed to the backend by send_character and send_backspace
\* calls has 8 bytes, byte 1 and bytes 3..7 are 0 and byte 0 is 0x00 or 0x02
\* (byte k of a report is element k + 1 of the sequence).
C18_ReportShape ==
    \A i \in 1..Len(wire) :
      /\ Len(wire[i].report) = 8
      /\ wire[i].report[2] = 0
      /\ \A k \in 4..8 : wire[i].report[k] = 0
      /\ wire[i].report[1] \in {0, 2}

\* C18 witness: a shifted press report of send_character and then the press report
\* of a send_backspace were written.
C18_Witness ==
    \E i, j \in 1..Len(wire) :
      /\ i < j
      /\ sent[wire[i].sid].kind = "text" /\ wire[i].ok
      /\ wire[i].report[1] = 2 /\ wire[i].report[3] # 0
      /\ sent[wire[j].sid].kind = "bs" /\ wire[j].ok /\ wire[j].report[3] = 42

\* The call sid has ended: no coroutine is running it.
Ended(sid) ==
    /\ sid \in 1..Len(sent)
    /\ \A t \in DOMAIN snd : snd[t].pc = "idle" \/ snd[t].sid # sid

\* Item n of call sid was processed: its press and then its release were attempted.
Attempted(sid, n) ==
    \E a, b \in Of(calls, sid, n) : a < b /\ calls[a].ph = 1 /\ calls[b].ph = 2

\* C19: when a send_text call has ended, every character of the text that is in the
\* KeyMapping domain was processed (press and release attempted), whatever
\* characters outside the domain and whatever failed writes came before it, and
\* the characters were processed in the order of the text.
C19_LaterCharactersProcessed ==
    \A sid \in 1..Len(sent) :
      (sent[sid].kind = "text" /\ Ended(sid))
        => /\ \A n \in 1..Len(sent[sid].items) :
                sent[sid].items[n] \in KeyMappingDomain => Attempted(sid, n)
           /\ \A a, b \in 1..Len(calls) :
                (calls[a].sid = sid /\ calls[b].sid = sid /\ calls[a].n < calls[b].n)
                  => a < b

\* C19 for the texts without a character that makes _char_to_hid_code raise.
C19_LaterCharactersProcessedUnlessRaised ==
    \A sid \in 1..Len(sent) :
      (sent[sid].kind = "text" /\ Ended(sid)
         /\ \A n \in 1..Len(sent[sid].items) : CharToHidCode(sent[sid].items[n]) # CodeRaises)
        => /\ \A n \in 1..Len(sent[sid].items) :
                sent[sid].items[n] \in KeyMappingDomain => Attempted(sid, n)
           /\ \A a, b \in 1..Len(calls) :
                (calls[a].sid = sid /\ calls[b].sid = sid /\ calls[a].n < calls[b].n)
                  => a < b

\* C19 witness: a send_text whose first character's press write failed ended, and
\* its second character was written.
C19_Witness ==
    \E sid \in 1..Len(sent) :
      /\ sent[sid].kind = "text" /\ Ended(sid) /\ Len(sent[sid].items) = 2
      /\ \E a \in Of(calls, sid, 1) : calls[a].ph = 1 /\ ~calls[a].ret /\ calls[a].why # "notconn"
      /\ \E i, j \in Of(wire, sid, 2) : i < j /\ wire[i].ok /\ wire[j].ok

\* C19 witness: a send_text of an unsupported character and a supported one ended,
\* and the supported one was written.
C19_SkippedWitness ==
    \E sid \in 1..Len(sent) :
      /\ sent[sid].kind = "text" /\ Ended(sid)
      /\ sent[sid].items = <<8364, 97>>
      /\ \E i, j \in Of(wire, sid, 2) : i < j /\ wire[i].ok /\ wire[j].ok

\* The outcome of the send_character or send_backspace call of item n of call sid.
OutcomeOf(sid, n) == SendCharacterOutcome(sent[sid].kind, sent[sid].items[n])

\* A write of item n of call sid failed; its press and its release were written.
WriteFailed(sid, n) == \E i \in Of(wire, sid, n) : ~wire[i].ok
BothWritten(sid, n) ==
    \E i, j \in Of(wire, sid, n) :
      wire[i].ph = 1 /\ wire[j].ph = 2 /\ wire[i].ok /\ wire[j].ok

\* C20: the outcome of a send_character or send_backspace call with a failed press
\* or release write differs from the outcome of a call whose two writes succeeded.
C20_FailedWriteReported ==
    \A sid, sid2 \in 1..Len(sent) :
      \A n \in 1..Len(sent[sid].items), n2 \in 1..Len(sent[sid2].items) :
        (Completed(sid, n) /\ Completed(sid2, n2)
           /\ WriteFailed(sid, n) /\ BothWritten(sid2, n2))
          => OutcomeOf(sid, n) # OutcomeOf(sid2, n2)

\* C20 witness: a send_character call whose press write failed has returned.
C20_Witness ==
    \E sid \in 1..Len(sent) :
      /\ sent[sid].kind = "text" /\ Completed(sid, 1)
      /\ \E i \in Of(wire, sid, 1) : wire[i].ph = 1 /\ ~wire[i].ok
      /\ \E a \in Of(calls, sid, 1) : calls[a].ph = 1 /\ ~calls[a].ret

\* C21: every failed operation of the SimpleBLE service has a diagnostic in what
\* the logger callback received: a connect that returned False, and a send_key call
\* that returned False (not connected, or the backend write failed).
C21_FailuresLogged ==
    /\ conn.result = "false" => LogEntry("connect", used.connects, 0) \in logged
    /\ \A i \in 1..Len(calls) :
         ~calls[i].ret => \E e \in logged : e.op = "send_key" /\ e.k = i

\* C21 for connect alone: a connect that returned False was logged.
C21_ConnectFailureLogged ==
    conn.result = "false" => LogEntry("connect", used.connects, 0) \in logged

\* C21 for disconnect: the step in which a disconnect whose backend call raised
\* returns gives the logger a diagnostic.
C21_DisconnectFailureLogged ==
    [][(disc.pc = "wait" /\ disc.ret = "raise" /\ disc'.pc = "idle") => logged' # logged]_vars

\* C21 for scan: a scan that found no adapter was logged.
C21_ScanFailureLogged ==
    (scan.runs > 0 /\ scan.pc = "idle" /\ ~scan.aliased)
      => LogEntry("scan", scan.runs, 0) \in logged

\* C21 witness: a connect failed, which was logged, and a send_key call failed.
C21_Witness ==
    /\ conn.result = "false" /\ LogEntry("connect", used.connects, 0) \in logged
    /\ \E i \in 1..Len(calls) : ~calls[i].ret

\* The SimpleBLE service is in the state disconnect() leaves.
Disconnected ==
    ~is_connected /\ peripheral = None /\ connected_device = None
    /\ report_characteristic = NoChar

\* C22 on the SimpleBLE service: a disconnect() called in the state a disconnect
\* leaves changes nothing and calls no backend disconnect.
C22_SimpleBLERepeatedDisconnect ==
    [][(used'.disconnects > used.disconnects /\ Disconnected)
         => (Disconnected' /\ disc'.pc = "idle" /\ link' = link)]_vars

\* C22 on the SimpleBLE service: the backend disconnect runs only on a live link.
C22_SimpleBLEDisconnectOnLiveLink ==
    [][(disc.pc = "wait" /\ disc.ret = "pend" /\ disc'.ret # "pend") => disc.dev \in link]_vars

\* C22 on the bleak service: a disconnect() that follows a disconnect() changes
\* nothing (so it did not disconnect at the backend).
C22_BleakRepeatedDisconnect ==
    [][(bleak_last.op = "disconnect" /\ bleak_last'.op = "disconnect")
         => UNCHANGED <<client, bleak_is_connected, bleak_connected_device,
                        report_char_handle, bleak_link>>]_vars

\* C22: disconnect() is idempotent and the backend disconnect is invoked only while
\* a link is live, on the SimpleBLE and on the bleak service.
C22_DisconnectIdempotent ==
    [][/\ (used'.disconnects > used.disconnects /\ Disconnected)
            => (Disconnected' /\ disc'.pc = "idle" /\ link' = link)
       /\ (disc.pc = "wait" /\ disc.ret = "pend" /\ disc'.ret # "pend") => disc.dev \in link
       /\ (bleak_last.op = "disconnect" /\ bleak_last'.op = "disconnect")
            => UNCHANGED <<client, bleak_is_connected, bleak_connected_device,
                           report_char_handle, bleak_link>>]_vars

\* C22 witness: the SimpleBLE service was disconnected twice after a connect.
C22_Witness ==
    /\ used.connects > 0 /\ used.disconnects = 2 /\ disc.pc = "idle" /\ conn.pc = "idle"
    /\ conn.result = "true" /\ Disconnected /\ link = {}

\* The press report of the backspace key: keycode 42 in the third byte, no modifier.
BackspacePress == <<0, 0, 42, 0, 0, 0, 0, 0>>

\* C23: one send_backspace makes exactly two send_key calls, the press with keycode
\* 42 and modifier 0 and then the all-zero release, and nothing else; the only
\* reports it hands to the backend are that press report and then the all-zero
\* release report, at most one per call, one the backend accepted for each call that
\* returns True.
C23_BackspacePressThenRelease ==
    \A sid \in 1..Len(sent) : \A n \in 1..Len(sent[sid].items) :
      (sent[sid].kind = "bs" /\ Completed(sid, n))
      => LET W(ph) == {i \in Of(wire, sid, n) : wire[i].ph = ph} IN
         /\ \E a, b \in 1..Len(calls) :
              /\ a < b
              /\ Of(calls, sid, n) = {a, b}
              /\ calls[a].ph = 1 /\ calls[a].key = <<42, 0>>
              /\ calls[b].ph = 2 /\ calls[b].key = <<0, 0>>
              /\ \A x \in {a, b} :
                   /\ Cardinality(W(calls[x].ph)) <= 1
                   /\ calls[x].ret => \E i \in W(calls[x].ph) : wire[i].ok
         /\ Of(wire, sid, n) = W(1) \cup W(2)
         /\ \A i \in W(1), j \in W(2) : i < j
         /\ \A i \in W(1) : wire[i].report = BackspacePress
         /\ \A j \in W(2) : wire[j].report = ReleaseReport

\* C23 witness: a send_backspace completed with its press and its release accepted
\* by the backend.
C23_Witness ==
    \E sid \in 1..Len(sent) : \E n \in 1..Len(sent[sid].items) :
      /\ sent[sid].kind = "bs" /\ Completed(sid, n)
      /\ \E i, j \in Of(wire, sid, n) :
           /\ i < j /\ wire[i].ok /\ wire[j].ok
           /\ wire[i].report = BackspacePress /\ wire[j].report = ReleaseReport

\* C24: a discovered device for which the backend reports no address gets no record
\* in the scan result and a diagnostic is logged for it; every record of the scan
\* result carries the address the backend reported for its device.
C24_NoRecordWithoutAddress ==
    /\ \A k \in 1..Len(seen) :
         seen[k].address = "Unknown"
           => /\ \A i \in 1..Len(scanned_devices) : scanned_devices[i].device_handle # k
              /\ LogEntry("found", scan.runs, k) \in logged
    /\ \A i \in 1..Len(scanned_devices) :
         /\ scanned_devices[i].address # "Unknown"
         /\ scanned_devices[i].device_handle \in 1..Len(seen)
         /\ seen[scanned_devices[i].device_handle].address = scanned_devices[i].address
    /\ \A i \in 1..Len(scan.result) : scan.result[i].address # "Unknown"

\* C24 witness: a scan returned a record although a device without an address was
\* discovered during it.
C24_Witness ==
    /\ scan.pc = "idle" /\ Len(scan.result) > 0
    /\ \E k \in 1..Len(seen) : seen[k].address = "Unknown"

\* C25: the sequence a scan_for_devices call returned is never modified afterwards,
\* neither by a later scan nor by a device-found callback that arrives after the
\* scan returned: it holds what it held when it was returned.
C25_ReturnedListUnchanged == scan.result = scan.returned

\* C25 witness: a device-found callback arrived after a scan returned its list.
C25_Witness ==
    /\ scan.pc = "idle" /\ scan.aliased
    /\ Len(seen) > 0 /\ seen[Len(seen)].address # "Unknown"
    /\ \A i \in 1..Len(scan.returned) :
         scan.returned[i].device_handle # seen[Len(seen)].device_handle
    /\ \A i \in 1..Len(scan.returned) : scan.returned[i].address # seen[Len(seen)].address

\* The part of C25 that holds: a later scan works on a new list and leaves the
\* list of the scan before it alone.
C25_LaterScanLeavesList ==
    [][scan.pc \in {"scanning", "settling"} => scan'.result = scan.result \/ scan'.pc = "idle"]_vars

\* The first connect() of the SimpleBLE service returned True on peer d after every
\* backend call succeeded.
SimpleBLEConnected(d) ==
    /\ conn.pc = "idle" /\ conn.result = "true" /\ used.faults = 0
    /\ is_connected /\ peripheral = d

\* The first connect() of the bleak-path service returned True on peer d.
BleakConnected(d) ==
    /\ bleak_last = [op |-> "connect", result |-> "true"]
    /\ bleak_is_connected /\ client = d

\* C26: the connect paths of the bleak-path and the SimpleBLE service resolve the
\* report characteristic alike: on every peer either both end degraded or both end
\* resolved, with the same characteristic.
C26_SameResolution ==
    \A d \in PathPeers :
      (SimpleBLEConnected(d) /\ BleakConnected(d))
      => /\ report_characteristic = NoChar <=> report_char_handle = 0
         /\ report_characteristic # NoChar
              => report_char_handle = Handle(report_characteristic[2], report_characteristic[3])

\* C26 witness: both services connected to the same peer, one on which they agree.
C26_Witness ==
    /\ SimpleBLEConnected("pad") /\ BleakConnected("pad")
    /\ report_characteristic = <<"pad", 2, 2>> /\ report_char_handle = Handle(2, 2)

\* The peers on which the two connect paths agree.
C26_SameResolutionOnStandardPeers ==
    \A d \in {"pad", "tag", "standard_first", "standard_last"} :
      (SimpleBLEConnected(d) /\ BleakConnected(d))
      => /\ report_characteristic = NoChar <=> report_char_handle = 0
         /\ report_characteristic # NoChar
              => report_char_handle = Handle(report_characteristic[2], report_characteristic[3])

\* C27: the encoders of BluetoothKeyboardService, SimpleBLEKeyboardService and
\* WindowsBluetoothKeyboardService agree: for every character they give the same key
\* code and the same shift decision, and for every key code and modifier in 0..255
\* _create_hid_report gives the same 8 bytes, the modifier in byte 0 and the key code
\* in byte 2.
C27_SameEncoding ==
    /\ \A s, t \in CodecServices :
         (encoded.out[s] # <<>> /\ encoded.out[t] # <<>>) => encoded.out[s] = encoded.out[t]
    /\ \A s \in CodecServices :
         (encoded.kind = "report" /\ encoded.out[s] # <<>>)
           => encoded.out[s] = <<encoded.b, 0, encoded.a, 0, 0, 0, 0, 0>>

\* C27 witness: the three services encoded a lowercase letter, and (in another
\* behaviour) built the report of a key code and a modifier.
C27_Witness ==
    /\ \A s \in CodecServices : encoded.out[s] # <<>>
    /\ \/ encoded.kind = "char" /\ encoded.a = 97 /\ encoded.out["windows"] = <<4, 0>>
       \/ encoded.kind = "report" /\ encoded.a = 255 /\ encoded.b = 2

\* The peers that expose no 1812 service.
NoHidPeers ==
    {d \in PathPeers : \A i \in 1..Len(Services(d)) : Services(d)[i].uuid # "1812"}

\* The characteristics <<service, characteristic>> of peer d whose UUID contains
\* "report" or "2a4d" and that can be written.
WritableReportChars(d) ==
    {q \in BleakChars(Services(d)) :
       /\ Services(d)[q[1]].chars[q[2]].uuid \in {"report", "2a4d"}
       /\ BleakWritable(Services(d)[q[1]].chars[q[2]])}

\* C28 on the SimpleBLE service: what connect resolved on a peer without a 1812
\* service is a writable characteristic whose UUID contains "report" or "2a4d".
C28_SimpleBLENeverResolvesReadOnly ==
    \A d \in NoHidPeers :
      (SimpleBLEConnected(d) /\ report_characteristic # NoChar)
      => <<report_characteristic[2], report_characteristic[3]>> \in WritableReportChars(d)

\* C28 on the SimpleBLE service: a peer without a 1812 service that has such a
\* characteristic ends resolved.
C28_SimpleBLEResolvesWritable ==
    \A d \in NoHidPeers :
      (SimpleBLEConnected(d) /\ WritableReportChars(d) # {}) => report_characteristic # NoChar

\* C28 on the bleak-path service: what connect resolved is writable.
C28_BleakNeverResolvesReadOnly ==
    \A d \in NoHidPeers :
      (BleakConnected(d) /\ report_char_handle # 0)
      => \E q \in WritableReportChars(d) : report_char_handle = Handle(q[1], q[2])

\* C28 on the bleak-path service: a peer with such a characteristic ends resolved.
C28_BleakResolvesWritable ==
    \A d \in NoHidPeers :
      (BleakConnected(d) /\ WritableReportChars(d) # {}) => report_char_handle # 0

\* C28: on a peer that exposes no 1812 service, connect looks at the characteristics
\* of all services and resolves one whose UUID contains "report" or "2a4d" only if
\* it can be written: a characteristic that cannot be written is never resolved, and
\* a matching writable one is resolved.
C28_FallbackResolvesWritableOnly ==
    /\ C28_SimpleBLENeverResolvesReadOnly
    /\ C28_SimpleBLEResolvesWritable
    /\ C28_BleakNeverResolvesReadOnly
    /\ C28_BleakResolvesWritable

\* C28 witness: the SimpleBLE service connected to the peer without a 1812 service
\* that has a writable "report" characteristic, the bleak-path service to the one
\* whose 2a4d cannot be written.
C28_Witness ==
    /\ SimpleBLEConnected("vendor") /\ WritableReportChars("vendor") # {}
    /\ BleakConnected("vendor_readonly") /\ WritableReportChars("vendor_readonly") = {}

\* The characteristics <<service, characteristic>> of the first 1812 service of peer
\* d whose UUID contains "2a4d" or "2a4b" and that can be written.
WritableHidChars(d) ==
    LET hid == BleakHidService(Services(d)) IN
    IF hid = 0 THEN {}
    ELSE {q \in BleakChars(Services(d)) :
            /\ q[1] = hid
            /\ Services(d)[hid].chars[q[2]].uuid \in {"2a4d", "2a4b"}
            /\ BleakWritable(Services(d)[hid].chars[q[2]])}

\* C29 on the SimpleBLE service.
C29_SimpleBLEResolvesInHidService ==
    \A d \in PathPeers :
      (SimpleBLEConnected(d) /\ WritableHidChars(d) # {})
      => /\ report_characteristic # NoChar
         /\ report_characteristic[2] = BleakHidService(Services(d))
         /\ CanWrite(Services(d)[report_characteristic[2]].chars[report_characteristic[3]])

\* C29 on the bleak-path service.
C29_BleakResolvesInHidService ==
    \A d \in PathPeers :
      (BleakConnected(d) /\ WritableHidChars(d) # {})
      => /\ report_char_handle # 0
         /\ \E q \in BleakChars(Services(d)) :
              /\ q[1] = BleakHidService(Services(d))
              /\ report_char_handle = Handle(q[1], q[2])
              /\ BleakWritable(Services(d)[q[1]].chars[q[2]])

\* C29: on a peer whose 1812 service has a writable characteristic matching 2a4d or
\* 2a4b, connect ends resolved, with a writable characteristic of that service; so a
\* peer whose HID service exposes only a writable 2a4b ends resolved, not degraded.
C29_ResolvesReportOrMap ==
    /\ C29_SimpleBLEResolvesInHidService
    /\ C29_BleakResolvesInHidService

\* C29 witness: the SimpleBLE service connected to the peer whose HID service
\* exposes only a writable 2a4b.
C29_Witness ==
    /\ SimpleBLEConnected("map_only")
    /\ WritableHidChars("map_only") = {<<2, 1>>}

\* C30: when the front end has scheduled several send_text / send_backspaces
\* coroutines, the reports the backend accepted still alternate press, release: no
\* press of one coroutine lies between the press and the release of a character of
\* another coroutine.
C30_NoPressInsideAnotherKeystroke ==
    \A i, j, k \in 1..Len(wire) :
      (/\ i < j /\ j < k
       /\ wire[i].ok /\ wire[j].ok /\ wire[k].ok
       /\ wire[i].sid = wire[k].sid /\ wire[i].n = wire[k].n
       /\ wire[i].ph = 1 /\ wire[k].ph = 2
       /\ wire[j].sid # wire[i].sid)
      => wire[j].ph # 1

\* C30 witness: the backend accepted reports of two coroutines.
C30_Witness ==
    \E i, j \in 1..Len(wire) :
      /\ wire[i].ok /\ wire[j].ok /\ wire[i].sid # wire[j].sid
      /\ IsPress(wire[i].report) /\ IsPress(wire[j].report)

\* C31: the reports of successive text-changed events reach the backend in the
\* order of the events: every report of the coroutine of an earlier event is
\* delivered before any report of the coroutine of a later event.
C31_ReportsInEventOrder ==
    \A i, j \in 1..Len(wire) :
      (i < j /\ wire[i].ok /\ wire[j].ok) => wire[i].sid <= wire[j].sid

\* C31 witness: the backend accepted a report of the second event's coroutine and,
\* after it, a report of another coroutine.
C31_Witness ==
    \E i, j \in 1..Len(wire) :
      /\ i < j /\ wire[i].ok /\ wire[j].ok
      /\ wire[i].sid # wire[j].sid
      /\ Len(sent) >= 2

\* C32: between the calls of a sequence of connect() and disconnect() calls on the
\* SimpleBLE service, every peripheral whose link is live at the backend is the one
\* self.peripheral holds, so that the next disconnect() tears it down.
C32_NoOrphanedLink ==
    (conn.pc = "idle" /\ disc.pc = "idle") => \A p \in link : peripheral = p

\* The part of C32 that holds: after a single connect() that returned True, and
\* before any disconnect(), the one live link is that of self.peripheral.
C32_FirstConnectHoldsItsLink ==
    (/\ conn.pc = "idle" /\ disc.pc = "idle"
     /\ used.connects = 1 /\ used.disconnects = 0 /\ conn.result = "true")
      => \A p \in link : peripheral = p

\* C32 witness: a second connect() returned while a link was live.
C32_Witness ==
    /\ conn.pc = "idle" /\ disc.pc = "idle"
    /\ used.connects = 2 /\ conn.result \in {"true", "false"}
    /\ link # {}

\* C33: a set report_characteristic was resolved from the services of the
\* peripheral that self.peripheral holds, after any sequence of connects and
\* disconnects.
C33_CharacteristicOfCurrentPeripheral ==
    report_characteristic # NoChar => report_characteristic[1] = peripheral

\* C33 for writes: no write addresses a peripheral with a report characteristic
\* that was resolved on another peripheral.
C33_NoWriteWithForeignCharacteristic ==
    \A i \in 1..Len(wire) : wire[i].resolved => wire[i].src = wire[i].dev

\* The part of C33 that holds: a connect that resolves a characteristic leaves the
\* characteristic of the peripheral it stores.
C33_ResolvedConnectBindsBoth ==
    [][(report_characteristic' # report_characteristic /\ report_characteristic' # NoChar)
         => report_characteristic'[1] = peripheral']_vars

\* C33 witness: a second connect returned True with a report characteristic set.
C33_Witness ==
    /\ conn.pc = "idle" /\ disc.pc = "idle"
    /\ used.connects = 2 /\ conn.result = "true"
    /\ report_characteristic # NoChar /\ peripheral # None

\* C34: in every state of the SimpleBLE service, at every suspension point of
\* connect, disconnect and send_key under any interleaving, is_connected is True
\* exactly when self.peripheral is set and exactly when connected_device is set,
\* and report_characteristic is set only when is_connected is True.
C34_FieldsAgree ==
    /\ is_connected <=> peripheral # None
    /\ is_connected <=> connected_device # None
    /\ report_characteristic # NoChar => is_connected

\* C34 witness: connect and disconnect are both suspended on the backend while the
\* service is connected.
C34_Witness ==
    /\ is_connected /\ peripheral # None
    /\ conn.pc # "idle" /\ disc.pc = "wait"

\* C34 witness: a send is suspended on the backend after a connect and a
\* disconnect completed.
C34_SendWitness ==
    /\ \E t \in DOMAIN snd : snd[t].ret = "pend"
    /\ used.connects > 0 /\ used.disconnects > 0 /\ disc.pc = "idle"

\* The number of items of the sends of one kind in a history of sends.
RECURSIVE C35_Submitted(_, _)
C35_Submitted(kind, sends) ==
    IF sends = <<>> THEN 0
    ELSE (IF Head(sends).kind = kind THEN Len(Head(sends).items) ELSE 0)
           + C35_Submitted(kind, Tail(sends))

\* C35 as stated: while connected, after any sequence of text-changed events and Clear Input
\* clicks, the characters submitted through send_text minus the backspaces
\* submitted through send_backspaces are as many as last_text is long.
C35_SubmittedMatchesLastText ==
    is_connected => C35_Submitted("text", sent) - C35_Submitted("bs", sent) = Len(last_text)

\* C35 amended: a text-changed event that submits characters or backspaces changes
\* the characters submitted minus the backspaces submitted by as much as it changes
\* the length of last_text, and when nothing is submitted the length of last_text
\* changes only by a Clear Input click, which empties last_text and submits nothing.
C35_EventKeepsBalance ==
    [][/\ sent' # sent
          => (C35_Submitted("text", sent') - C35_Submitted("bs", sent'))
               - (C35_Submitted("text", sent) - C35_Submitted("bs", sent))
             = Len(last_text') - Len(last_text)
       /\ sent' = sent
          => (Len(last_text') = Len(last_text) \/ (last_text' = <<>> /\ input_text' = <<>>))]_vars

\* C35 witness: Clear Input was clicked after characters were submitted.
C35_Witness ==
    /\ is_connected
    /\ C35_Submitted("text", sent) > 0 /\ C35_Submitted("bs", sent) = 0
    /\ input_text = <<>> /\ last_text = <<>>

====
